---- MODULE Spec2Model ----
(***************************************************************************)
(* A model of the customer-support query pipeline: the AnalyticsManager    *)
(* (backend/agents/analytics.py), the two keyword intent classifiers       *)
(* (backend/main.py, backend/agents/orchestrator.py), and the retrieval    *)
(* and routing of CustomerServiceOrchestrator and of process_ai_query.     *)
(*                                                                         *)
(* Units.  A response time is an integer number of milliseconds (the code  *)
(* holds seconds as a float), a confidence an integer number of            *)
(* hundredths, a point in time an integer number of clock ticks with       *)
(* TicksPerHour ticks to the hour.  Texts are strings; TLC reads a string  *)
(* as a sequence of characters, so Len, SubSeq and \o are the code's len,  *)
(* slicing and concatenation.                                              *)
(***************************************************************************)
EXTENDS Integers, Sequences, FiniteSets, TLC

VARIABLES
    query_history,   \* AnalyticsManager.query_history: deque(maxlen=...)
    session_data,    \* AnalyticsManager.session_data: session_id -> session
    agent_metrics,   \* AnalyticsManager.agent_metrics: defaultdict(list)
    feedback_data,   \* AnalyticsManager.feedback_data
    system_metrics,  \* AnalyticsManager.system_metrics
    initialized,     \* AnalyticsManager.initialized
    clock,           \* what datetime.utcnow() returns, in ticks
    logged,          \* history variable: the query_data of every log_query call, in call order
    sent,            \* per concurrent caller: how many of its log_query calls have run
    orchestrator,    \* CustomerServiceOrchestrator: its fields as a record
    manager,         \* ConnectionManager of main.py: its fields as a record
    endpoints,       \* per websocket: whether websocket_endpoint runs for it, and its session_id
    answers,         \* history variable: the process_query calls answered, in call order, each with its result
    ret              \* the last call: its name, its arguments and what it handed back

vars == <<query_history, session_data, agent_metrics, feedback_data,
          system_metrics, initialized, clock, logged, sent, orchestrator,
          manager, endpoints, answers, ret>>

----------------------------------------------------------------------------
(* Bounds of the model *)

\* query_history is deque(maxlen=10000); the model checks a deque of this capacity.
HistoryMaxLen == 3
\* _update_running_averages averages the last 1000 records; the model's window.
RollingWindow == 2
\* how many log_query calls a behaviour of Spec makes
MaxCalls == 4
\* how many log_feedback calls a behaviour of Spec makes
MaxFeedback == 1
\* clock ticks to the hour
TicksPerHour == 2
\* how many log_query calls a behaviour of SpecTime makes
MaxTimedCalls == 1
\* concurrent callers' calls each (M); Callers below are the N callers
CallsPerCaller == 2
\* how many fragments a query text of SpecClassify is put together from
MaxFragments == 3
\* _get_top_queries returns the 10 most frequent groups; the model's limit.
TopQueriesLimit == 2
\* get_session_analytics returns the last 10 queries; the model's number.
SessionTail == 2
\* how many log_query calls a behaviour of SpecSession makes
MaxSessionCalls == 3
\* how many log_feedback calls a behaviour of SpecFeedback makes
MaxFeedbackCalls == 2
\* how many log_query calls a behaviour of SpecFeedback makes
MaxFeedbackQueries == 1

(* Program constants *)
HoursWindow == 24
SeedTotalQueries == 1247
SeedTotalSessions == 423
SeedAvgResponseTime == 1200
SeedTechnical == 45
SeedBilling == 30
SeedGeneral == 25

----------------------------------------------------------------------------
(* Helpers *)

Min(a, b) == IF a < b THEN a ELSE b
Max(a, b) == IF a > b THEN a ELSE b
Abs(a) == IF a < 0 THEN -a ELSE a

RECURSIVE SumSeq(_)
SumSeq(s) == IF s = <<>> THEN 0 ELSE Head(s) + SumSeq(Tail(s))

\* s[-n:] of Python, n > 0
LastN(s, n) == SubSeq(s, Max(1, Len(s) - n + 1), Len(s))

UpperCase == "ABCDEFGHIJKLMNOPQRSTUVWXYZ"
LowerCase == "abcdefghijklmnopqrstuvwxyz"

\* the lower-case letter of every upper-case one
lower_table ==
    [c \in {SubSeq(UpperCase, i, i) : i \in 1..Len(UpperCase)} |->
        LET i == CHOOSE i \in 1..Len(UpperCase) : SubSeq(UpperCase, i, i) = c
        IN SubSeq(LowerCase, i, i)]

\* str.lower() on one character
lower_char(c) == IF c \in DOMAIN lower_table THEN lower_table[c] ELSE c

\* query.lower()
RECURSIVE lower(_)
lower(s) ==
    IF Len(s) = 0 THEN ""
    ELSE IF Len(s) = 1 THEN lower_char(s)
    ELSE lower(SubSeq(s, 1, Len(s) \div 2))
         \o lower(SubSeq(s, Len(s) \div 2 + 1, Len(s)))

\* the characters str.strip() takes off the two ends
Whitespace == " \t\n\r"
is_space(c) == \E i \in 1..Len(Whitespace) : SubSeq(Whitespace, i, i) = c

\* a strip that leaves the text as it is
strip_nothing(s) == s

\* str.strip()
strip(s) ==
    LET inner == {i \in 1..Len(s) : ~is_space(SubSeq(s, i, i))}
    IN IF inner = {} THEN ""
       ELSE SubSeq(s, CHOOSE i \in inner : \A j \in inner : i <= j,
                      CHOOSE i \in inner : \A j \in inner : j <= i)

\* a slice that takes the whole list
slice_all(s, k) == s

\* s[:k] of Python: the first k entries, and for k < 0 all but the last -k
slice_to(s, k) ==
    IF k >= 0 THEN SubSeq(s, 1, Min(k, Len(s)))
    ELSE SubSeq(s, 1, Max(0, Len(s) + k))

\* datetime.isoformat() and datetime.fromisoformat(): the text form of a
\* time is another value than the time; parsing gives the time back.
isoformat(t) == <<"iso", t>>
fromisoformat(s) == s[2]

\* the dict without entries
EmptyMap == [k \in {} |-> 0]

----------------------------------------------------------------------------
(* AnalyticsManager *)

\* __init__
InitAggregator ==
    /\ query_history = <<>>
    /\ session_data = EmptyMap
    /\ agent_metrics = EmptyMap
    /\ feedback_data = <<>>
    /\ system_metrics =
          [total_queries |-> 0,
           total_sessions |-> 0,
           avg_response_time |-> 0,
           satisfaction_score |-> [num |-> 46, den |-> 10],
           agent_distribution |-> [is_defaultdict |-> TRUE, counts |-> EmptyMap]]
    /\ initialized = FALSE
    /\ clock = 0
    /\ logged = <<>>
    /\ sent = [c \in {"c1", "c2"} |-> 0]

\* CustomerServiceOrchestrator.__init__
new_orchestrator ==
    [initialized |-> FALSE,
     embedding_model |-> "None",
     agents |-> {},
     knowledge_base |-> <<>>]

InitOrchestrator == orchestrator = new_orchestrator

\* ConnectionManager.__init__
new_manager == [active_connections |-> <<>>, user_sessions |-> EmptyMap]

\* the websockets clients open, and the endpoint of a websocket not open
Websockets == {"ws1", "ws2", "ws3"}
closed == [state |-> "closed", session_id |-> ""]

InitManager ==
    /\ manager = new_manager
    /\ endpoints = [ws \in Websockets |-> closed]
    /\ answers = <<>>

Init ==
    /\ InitAggregator
    /\ InitManager
    /\ InitOrchestrator
    /\ ret = [op |-> "none"]

\* query_data of log_query: the record kept in the history and in the session
query_data(query, response, agent_type, confidence, response_time, customer_id, session_id, timestamp) ==
    [timestamp |-> isoformat(timestamp),
     query |-> query,
     response |-> response,
     agent_type |-> agent_type,
     confidence |-> confidence,
     response_time |-> response_time,
     customer_id |-> customer_id,
     session_id |-> session_id,
     query_length |-> Len(query),
     response_length |-> Len(response)]

\* a deque that never drops anything
deque_append_unbounded(h, x) == Append(h, x)

\* query_history.append(query_data) on deque(maxlen=HistoryMaxLen): a full
\* deque drops the element at its left end
deque_append(h, x) ==
    IF Len(h) >= HistoryMaxLen THEN Append(Tail(h), x) ELSE Append(h, x)

\* agent_distribution[agent_type] += 1 raises KeyError on a plain dict that
\* lacks the key; a defaultdict(int) reads the missing key as 0
dict_incr_faults(dist, key) ==
    ~dist.is_defaultdict /\ key \notin DOMAIN dist.counts

dict_incr(dist, key) ==
    [is_defaultdict |-> dist.is_defaultdict,
     counts |-> [k \in DOMAIN dist.counts \cup {key} |->
                   IF k = key
                   THEN (IF k \in DOMAIN dist.counts THEN dist.counts[k] ELSE 0) + 1
                   ELSE dist.counts[k]]]

\* agent_metrics[agent_type].append({...}) on a defaultdict(list)
agent_metrics_append(am, agent_type, confidence, response_time, timestamp) ==
    LET sample == [confidence |-> confidence,
                   response_time |-> response_time,
                   timestamp |-> timestamp]
    IN [k \in DOMAIN am \cup {agent_type} |->
          IF k = agent_type
          THEN Append(IF k \in DOMAIN am THEN am[k] ELSE <<>>, sample)
          ELSE am[k]]

\* the session a first query creates
new_session(customer_id, timestamp) ==
    [customer_id |-> customer_id,
     start_time |-> timestamp,
     queries |-> <<>>,
     total_response_time |-> 0,
     avg_confidence |-> 0,
     last_activity |-> timestamp]

\* an update that starts the session afresh on every query
session_update_lost(sd, rec, customer_id, session_id, response_time, timestamp) ==
    LET session == new_session(customer_id, timestamp)
        updated == [session EXCEPT
                      !.queries = Append(@, rec),
                      !.total_response_time = @ + response_time,
                      !.last_activity = timestamp]
    IN [k \in DOMAIN sd \cup {session_id} |->
          IF k = session_id THEN updated ELSE sd[k]]

\* an update that hands the session to the customer of the latest query
session_update_latest_customer(sd, rec, customer_id, session_id, response_time, timestamp) ==
    LET session == IF session_id \in DOMAIN sd
                   THEN sd[session_id]
                   ELSE new_session(customer_id, timestamp)
        updated == [session EXCEPT
                      !.customer_id = customer_id,
                      !.queries = Append(@, rec),
                      !.total_response_time = @ + response_time,
                      !.last_activity = timestamp]
    IN [k \in DOMAIN sd \cup {session_id} |->
          IF k = session_id THEN updated ELSE sd[k]]

\* an update that keeps in the session only what the history can hold
session_update_capped(sd, rec, customer_id, session_id, response_time, timestamp) ==
    LET session == IF session_id \in DOMAIN sd
                   THEN sd[session_id]
                   ELSE new_session(customer_id, timestamp)
        kept == LastN(Append(session.queries, rec), HistoryMaxLen - 1)
        updated == [session EXCEPT
                      !.queries = kept,
                      !.total_response_time =
                          SumSeq([i \in 1..Len(kept) |-> kept[i].response_time]),
                      !.last_activity = timestamp]
    IN [k \in DOMAIN sd \cup {session_id} |->
          IF k = session_id THEN updated ELSE sd[k]]

\* "Update session data" of log_query
session_update(sd, rec, customer_id, session_id, response_time, timestamp) ==
    LET session == IF session_id \in DOMAIN sd
                   THEN sd[session_id]
                   ELSE new_session(customer_id, timestamp)
        updated == [session EXCEPT
                      !.queries = Append(@, rec),
                      !.total_response_time = @ + response_time,
                      !.last_activity = timestamp]
    IN [k \in DOMAIN sd \cup {session_id} |->
          IF k = session_id THEN updated ELSE sd[k]]

\* round(sum/n, 2) of a mean given as the fraction sum/n of milliseconds: the
\* multiples of 10 ms nearest to it.  A mean exactly halfway between two of
\* them goes to either: which one depends on the binary float that stands
\* for the mean (round(0.005, 2) is 0.01, round(0.015, 2) is 0.01).
round2(sum, n) ==
    {r \in {10 * k : k \in 0..((sum \div (10 * n)) + 1)} :
        2 * Abs(r * n - sum) <= 10 * n}

\* an average over the whole history
recent_window_whole(h) == h

\* list(self.query_history)[-1000:]
recent_window(h) == LastN(h, RollingWindow)

\* _update_running_averages: the values avg_response_time may take
update_running_averages(h, old) ==
    IF h = <<>>
    THEN {old}
    ELSE LET recent_queries == recent_window(h)
             times == [i \in 1..Len(recent_queries) |->
                         recent_queries[i].response_time]
         IN round2(SumSeq(times), Len(recent_queries))

\* a handler that lets the exception through
log_query_propagates(fault) == IF fault = "none" THEN "returned" ELSE "raised"

\* "except Exception as e: logger.error(...)" of log_query: whatever was
\* raised inside the try block, the call returns
log_query_except(fault) == "returned"

\* "except Exception as e: logger.error(...)" of log_feedback
log_feedback_except(fault) == "returned"

\* log_query
log_query(query, response, agent_type, confidence, response_time, customer_id, session_id) ==
    LET timestamp == clock
        rec == query_data(query, response, agent_type, confidence,
                          response_time, customer_id, session_id, timestamp)
        sm1 == [system_metrics EXCEPT !.total_queries = @ + 1]
    IN /\ logged' = Append(logged, rec)
       /\ query_history' = deque_append(query_history, rec)
       /\ IF dict_incr_faults(sm1.agent_distribution, agent_type)
          THEN \* KeyError at the agent_distribution line: the rest is skipped
               /\ system_metrics' = sm1
               /\ UNCHANGED <<agent_metrics, session_data>>
               /\ ret' = [op |-> "log_query", fault |-> "KeyError",
                          outcome |-> log_query_except("KeyError"),
                          record |-> rec]
          ELSE LET sm2 == [sm1 EXCEPT
                             !.agent_distribution = dict_incr(@, agent_type)]
                   sm3 == IF session_id \in DOMAIN session_data
                          THEN sm2
                          ELSE [sm2 EXCEPT !.total_sessions = @ + 1]
               IN /\ agent_metrics' =
                         agent_metrics_append(agent_metrics, agent_type,
                                              confidence, response_time, timestamp)
                  /\ session_data' =
                         session_update(session_data, rec, customer_id,
                                        session_id, response_time, timestamp)
                  /\ \E avg \in update_running_averages(query_history',
                                                        sm3.avg_response_time) :
                         system_metrics' = [sm3 EXCEPT !.avg_response_time = avg]
                  /\ ret' = [op |-> "log_query", fault |-> "none",
                             outcome |-> log_query_except("none"),
                             record |-> rec]
       /\ UNCHANGED <<feedback_data, initialized, clock, orchestrator>>

\* a score that is the last rating
last_rating(fb) == [num |-> fb[Len(fb)].rating, den |-> 1]

\* statistics.mean(ratings) as the fraction num/den
mean_rating(fb) ==
    [num |-> SumSeq([i \in 1..Len(fb) |-> fb[i].rating]), den |-> Len(fb)]

\* log_feedback
log_feedback(session_id, rating, comment) ==
    LET fb == [session_id |-> session_id,
               rating |-> rating,
               comment |-> comment,
               timestamp |-> isoformat(clock)]
    IN /\ feedback_data' = Append(feedback_data, fb)
       /\ system_metrics' =
             [system_metrics EXCEPT !.satisfaction_score = mean_rating(feedback_data')]
       /\ ret' = [op |-> "log_feedback", fault |-> "none",
                  outcome |-> log_feedback_except("none"),
                  session_id |-> session_id, rating |-> rating,
                  comment |-> comment]
       /\ UNCHANGED <<query_history, session_data, agent_metrics, initialized,
                      clock, logged, sent, orchestrator,
                   manager, endpoints, answers>>

\* sample_data of _load_historical_data
sample_data ==
    [total_queries |-> SeedTotalQueries,
     total_sessions |-> SeedTotalSessions,
     avg_response_time |-> SeedAvgResponseTime,
     satisfaction_score |-> [num |-> 46, den |-> 10],
     agent_distribution |->
         [is_defaultdict |-> FALSE,
          counts |-> [k \in {"technical", "billing", "general"} |->
                        CASE k = "technical" -> SeedTechnical
                          [] k = "billing" -> SeedBilling
                          [] OTHER -> SeedGeneral]]]

\* initialize: _load_historical_data does system_metrics.update(sample_data),
\* which puts a plain dict in the place of the defaultdict
initialize ==
    /\ system_metrics' = sample_data
    /\ initialized' = TRUE
    /\ ret' = [op |-> "initialize"]
    /\ UNCHANGED <<query_history, session_data, agent_metrics, feedback_data,
                   clock, logged, sent, orchestrator,
                   manager, endpoints, answers>>

\* the list left in the order it was built in
not_reversed(s) == s

\* list(reversed(result))
reversed(s) == [i \in 1..Len(s) |-> s[Len(s) + 1 - i]]

\* timestamp.replace(minute=0, second=0, microsecond=0)
hour_of(t) == t - (t % TicksPerHour)

\* timedelta(hours=h)
hours(h) == h * TicksPerHour

\* _get_recent_queries(hours=24) with utcnow() = now
get_recent_queries(h, now) ==
    LET cutoff_time == now - hours(HoursWindow)
    IN SelectSeq(h, LAMBDA query : fromisoformat(query.timestamp) > cutoff_time)

\* hourly_counts of _calculate_hourly_volume, read with .get(hour, 0)
hourly_counts(queries, hour) ==
    Cardinality({i \in 1..Len(queries) :
                    hour_of(fromisoformat(queries[i].timestamp)) = hour})

\* _calculate_hourly_volume with utcnow() = now
calculate_hourly_volume(queries, now) ==
    LET this_hour == hour_of(now)
        result == [j \in 1..HoursWindow |->
                     LET hour == this_hour - hours(j - 1)
                     IN [hour |-> isoformat(hour),
                         count |-> hourly_counts(queries, hour)]]
    IN reversed(result)

\* the groups in the order the loop left them in
sorted_not_at_all(items) == items

\* sorted(query_counts.items(), key=lambda x: x[1], reverse=True): by count,
\* descending; sorted is stable, and with reverse=True items of equal count
\* still keep the order they had
sorted_by_count(items) ==
    LET before(i, j) == \/ items[i][2] > items[j][2]
                        \/ items[i][2] = items[j][2] /\ i < j
        place(i) == 1 + Cardinality({j \in 1..Len(items) : before(j, i)})
    IN [p \in 1..Len(items) |->
           items[CHOOSE i \in 1..Len(items) : place(i) = p]]

\* one turn of the loop of _get_top_queries: counts holds, for each key in
\* the order of first insertion, <<key, query_counts[key], query_examples[key]>>
count_query(counts, query_text, query) ==
    IF \E p \in 1..Len(counts) : counts[p][1] = query_text
    THEN [p \in 1..Len(counts) |->
            IF counts[p][1] = query_text
            THEN <<counts[p][1], counts[p][2] + 1, counts[p][3]>>
            ELSE counts[p]]
    ELSE Append(counts, <<query_text, 1, query>>)

\* the loop of _get_top_queries over the queries from the i-th on
RECURSIVE count_queries(_, _, _)
count_queries(queries, i, counts) ==
    IF i > Len(queries) THEN counts
    ELSE count_queries(queries, i + 1,
                       count_query(counts, strip(lower(queries[i].query)),
                                   queries[i]))

\* _get_top_queries(queries, limit)
get_top_queries(queries, limit) ==
    LET top_queries == slice_to(sorted_by_count(count_queries(queries, 1, <<>>)), limit)
    IN [p \in 1..Len(top_queries) |->
           [query |-> top_queries[p][1],
            count |-> top_queries[p][2],
            example |-> top_queries[p][3]]]

\* get_analytics.  utcnow() is read once in _get_recent_queries and again in
\* _calculate_hourly_volume; elapsed is the time that passes between the two.
\* Of the returned dict the model keeps the counters, hourly_volume,
\* top_queries and recent_activity.last_24h_queries.
get_analytics(elapsed) ==
    LET recent_queries == get_recent_queries(query_history, clock)
        hourly_volume == calculate_hourly_volume(recent_queries, clock + elapsed)
        top_queries == get_top_queries(recent_queries, TopQueriesLimit)
    IN /\ clock' = clock + elapsed
       /\ ret' = [op |-> "get_analytics",
                  now |-> clock + elapsed,
                  total_queries |-> system_metrics.total_queries,
                  total_sessions |-> system_metrics.total_sessions,
                  avg_response_time |-> system_metrics.avg_response_time,
                  satisfaction_score |-> system_metrics.satisfaction_score,
                  agent_distribution |-> system_metrics.agent_distribution.counts,
                  hourly_volume |-> hourly_volume,
                  top_queries |-> top_queries,
                  last_24h_queries |-> Len(recent_queries)]
       /\ UNCHANGED <<query_history, session_data, agent_metrics, feedback_data,
                      system_metrics, initialized, logged, sent, orchestrator,
                   manager, endpoints, answers>>

\* a snapshot of a session nobody logged
zero_result == [total_queries |-> 0]

\* "return {}" of get_session_analytics
empty_result == EmptyMap

\* the first queries of the session
session_queries_head(queries) == SubSeq(queries, 1, Min(SessionTail, Len(queries)))

\* queries[-10:]
session_queries_tail(queries) == LastN(queries, SessionTail)

\* agent_usage of get_session_analytics: a defaultdict(int) made a dict
agent_usage(queries) ==
    [a \in {queries[i].agent_type : i \in 1..Len(queries)} |->
        Cardinality({i \in 1..Len(queries) : queries[i].agent_type = a})]

\* what get_session_analytics returns; nothing in its try block raises on
\* the sessions log_query makes.  duration_seconds is in clock ticks, the
\* mean as the fraction num/den.
session_analytics(sd, session_id) ==
    IF session_id \notin DOMAIN sd
    THEN empty_result
    ELSE LET session == sd[session_id]
             queries == session.queries
         IN IF queries = <<>>
            THEN empty_result
            ELSE [session_id |-> session_id,
                  customer_id |-> session.customer_id,
                  start_time |-> isoformat(session.start_time),
                  last_activity |-> isoformat(session.last_activity),
                  duration_seconds |-> session.last_activity - session.start_time,
                  total_queries |-> Len(queries),
                  avg_confidence |->
                      [num |-> SumSeq([i \in 1..Len(queries) |-> queries[i].confidence]),
                       den |-> Len(queries)],
                  total_response_time |->
                      SumSeq([i \in 1..Len(queries) |-> queries[i].response_time]),
                  agent_usage |-> agent_usage(queries),
                  queries |-> session_queries_tail(queries)]

\* get_session_analytics
get_session_analytics(session_id) ==
    /\ ret' = [op |-> "get_session_analytics",
               session_id |-> session_id,
               outcome |-> "returned",
               result |-> session_analytics(session_data, session_id)]
    /\ UNCHANGED <<query_history, session_data, agent_metrics, feedback_data,
                   system_metrics, initialized, clock, logged, sent, orchestrator,
                   manager, endpoints, answers>>

----------------------------------------------------------------------------
(* The aggregator under a stream of calls *)

AgentTypes == {"technical", "error"}
AgentOrder == <<"technical", "error">>
SessionIds == {"s1", "s2"}
ResponseTimes == {5, 1250}
Ratings == {1, 5}

LogQuery ==
    /\ Len(logged) < MaxCalls
    /\ \E a \in AgentTypes, sid \in SessionIds, rt \in ResponseTimes :
          log_query("Help", "ok", a, 85, rt, "cust", sid)
    /\ UNCHANGED <<sent, manager, endpoints, answers>>

\* the application calls initialize() once
Initialize ==
    /\ ~initialized
    /\ initialize

Next == Initialize \/ LogQuery

Spec == Init /\ [][Next]_vars

(* Ingestion of queries and feedback *)

IngestQuery ==
    /\ Len(logged) < MaxCalls
    /\ \E a \in AgentTypes : log_query("Help", "ok", a, 85, 4, "cust", "s1")
    /\ UNCHANGED <<sent, manager, endpoints, answers>>

LogFeedback ==
    /\ Len(feedback_data) < MaxFeedback
    /\ \E sid \in SessionIds, r \in Ratings : log_feedback(sid, r, "")

NextIngest == Initialize \/ IngestQuery \/ LogFeedback

SpecIngest == Init /\ [][NextIngest]_vars

(* Concurrent callers.  log_query is a coroutine without a suspension point: *)
(* its one await is of _update_running_averages, which awaits nothing, so   *)
(* the event loop runs each call from its first line to its return before   *)
(* it runs any other.  What the callers' concurrency leaves open is the     *)
(* order in which their calls run.                                          *)

Callers == {"c1", "c2"}
QueryTexts == <<"Help", " help ", "HELP", "help me">>

CallerLogs ==
    \E c \in Callers :
       /\ sent[c] < CallsPerCaller
       /\ \E sid \in SessionIds, rt \in ResponseTimes :
             log_query(QueryTexts[sent[c] + 1], "ok", "technical", 85, rt, c, sid)
       /\ sent' = [sent EXCEPT ![c] = @ + 1]
       /\ UNCHANGED <<manager, endpoints, answers>>

NextConc == CallerLogs

SpecConc == Init /\ [][NextConc]_vars

(* The aggregator over a day *)

MaxClock == (HoursWindow + 1) * TicksPerHour

Tick ==
    /\ clock < MaxClock
    /\ clock' = clock + 1
    /\ ret' = [op |-> "none"]
    /\ UNCHANGED <<query_history, session_data, agent_metrics, feedback_data,
                   system_metrics, initialized, logged, sent, orchestrator,
                   manager, endpoints, answers>>

TimedLogQuery ==
    /\ Len(logged) < MaxTimedCalls
    /\ log_query("Help", "ok", "technical", 85, 4, "cust", "s1")
    /\ UNCHANGED <<sent, manager, endpoints, answers>>

GetAnalytics ==
    \E elapsed \in {0, 1} :
       /\ clock + elapsed <= MaxClock
       /\ get_analytics(elapsed)

NextTime == Tick \/ TimedLogQuery \/ GetAnalytics

SpecTime == Init /\ [][NextTime]_vars

----------------------------------------------------------------------------
(* Properties of the aggregator *)

RECURSIVE SumLens(_, _)
SumLens(f, S) ==
    IF S = {} THEN 0
    ELSE LET k == CHOOSE x \in S : TRUE IN Len(f[k]) + SumLens(f, S \ {k})

RECURSIVE SumVals(_, _)
SumVals(f, S) ==
    IF S = {} THEN 0
    ELSE LET k == CHOOSE x \in S : TRUE IN f[k] + SumVals(f, S \ {k})

TotalSamples(am) == SumLens(am, DOMAIN am)
TotalSessionQueries(sd) == SumLens([k \in DOMAIN sd |-> sd[k].queries], DOMAIN sd)
DistributionTotal(sm) ==
    SumVals(sm.agent_distribution.counts, DOMAIN sm.agent_distribution.counts)

\* C1: after n log_query calls the history holds exactly the last
\* min(n, capacity) logged records, in insertion order.
C1_RingBufferKeepsLastRecords ==
    /\ Len(query_history) = Min(Len(logged), HistoryMaxLen)
    /\ \A i \in 1..Len(query_history) :
          query_history[i] = logged[Len(logged) - Len(query_history) + i]

\* one call more than the capacity: the first record is gone
C1_Witness ==
    /\ Len(logged) = HistoryMaxLen + 1
    /\ Len(query_history) = HistoryMaxLen
    /\ \A i \in 1..Len(query_history) : query_history[i] # logged[1]
    /\ query_history[Len(query_history)] = logged[Len(logged)]

AllCallersDone == \A c \in Callers : sent[c] = CallsPerCaller

\* C2: when every caller has made its calls, whatever the order they ran in,
\* the history has min(N*M, capacity) records, every call's record went in
\* exactly once, and the sessions are what running the calls one after the
\* other, in the order they ran in, gives.
C2_ConcurrentCallsAreSequential ==
    AllCallersDone =>
       /\ Len(query_history) = Min(Cardinality(Callers) * CallsPerCaller, HistoryMaxLen)
       /\ \A c \in Callers, k \in 1..CallsPerCaller :
             Cardinality({i \in 1..Len(logged) :
                             /\ logged[i].customer_id = c
                             /\ logged[i].query = QueryTexts[k]}) = 1
       /\ \A i, j \in 1..Len(query_history) :
             i # j => query_history[i] # query_history[j]
       /\ \A i \in 1..Len(query_history) :
             query_history[i] = logged[Len(logged) - Len(query_history) + i]
       /\ DOMAIN session_data = {logged[i].session_id : i \in 1..Len(logged)}
       /\ \A s \in DOMAIN session_data :
             LET mine == SelectSeq(logged, LAMBDA r : r.session_id = s)
             IN /\ session_data[s].queries = mine
                /\ session_data[s].total_response_time =
                      SumSeq([i \in 1..Len(mine) |-> mine[i].response_time])
                /\ session_data[s].customer_id = mine[1].customer_id
       /\ system_metrics.total_sessions = Cardinality(DOMAIN session_data)
       /\ system_metrics.total_queries = Len(logged)

\* the callers' calls alternated, and one session took queries of both
C2_Witness ==
    /\ AllCallersDone
    /\ logged[1].customer_id = "c1"
    /\ logged[2].customer_id = "c2"
    /\ logged[3].customer_id = "c1"
    /\ \E s \in DOMAIN session_data :
          \E i, j \in 1..Len(session_data[s].queries) :
             session_data[s].queries[i].customer_id #
                session_data[s].queries[j].customer_id

\* C3: log_query and log_feedback return normally, whatever happens inside.
C3_IngestionNeverRaises ==
    ret.op \in {"log_query", "log_feedback"} => ret.outcome = "returned"

\* a log_query that met the KeyError after initialize() and returned
C3_Witness ==
    /\ initialized
    /\ ret.op = "log_query"
    /\ ret.fault = "KeyError"
    /\ ret.outcome = "returned"

\* C4: a log_query call applies its record everywhere (history, total_queries,
\* agent_distribution, per-agent samples, session) or nowhere.
C4_RecordAppliedEverywhereOrNowhere ==
    [][logged' # logged =>
         LET dq == system_metrics'.total_queries - system_metrics.total_queries
             dd == DistributionTotal(system_metrics') - DistributionTotal(system_metrics)
             ds == TotalSamples(agent_metrics') - TotalSamples(agent_metrics)
             dn == TotalSessionQueries(session_data') - TotalSessionQueries(session_data)
             rec == logged'[Len(logged')]
         IN \/ /\ query_history' = deque_append(query_history, rec)
               /\ dq = 1 /\ dd = 1 /\ ds = 1 /\ dn = 1
            \/ /\ query_history' = query_history
               /\ dq = 0 /\ dd = 0 /\ ds = 0 /\ dn = 0]_vars

WindowLen == Min(Len(query_history), RollingWindow)
WindowSum ==
    SumSeq([i \in 1..WindowLen |->
               query_history[Len(query_history) - WindowLen + i].response_time])

BucketHour(i) == fromisoformat(ret.hourly_volume[i].hour)

\* C6: the hourly_volume counts sum to the number of records of the trailing
\* 24 hours.
C6_HourlyVolumeSumsToRecent ==
    ret.op = "get_analytics" =>
       SumSeq([i \in 1..Len(ret.hourly_volume) |-> ret.hourly_volume[i].count])
          = ret.last_24h_queries

\* C7: hourly_volume has 24 buckets, one hour apart in increasing order, the
\* last one the current hour, and a bucket without records counts 0.
C7_HourlyVolumeShape ==
    ret.op = "get_analytics" =>
       /\ Len(ret.hourly_volume) = HoursWindow
       /\ \A i \in 1..(Len(ret.hourly_volume) - 1) :
             BucketHour(i + 1) = BucketHour(i) + TicksPerHour
       /\ LET last == BucketHour(Len(ret.hourly_volume))
          IN /\ last % TicksPerHour = 0
             /\ last <= ret.now
             /\ ret.now < last + TicksPerHour
       /\ \A i \in 1..Len(ret.hourly_volume) :
             (\A j \in 1..Len(query_history) :
                 LET t == fromisoformat(query_history[j].timestamp)
                 IN ~(BucketHour(i) <= t /\ t < BucketHour(i) + TicksPerHour))
             => ret.hourly_volume[i].count = 0

\* a snapshot with a record in one bucket and none in another
C7_Witness ==
    /\ ret.op = "get_analytics"
    /\ \E i, j \in 1..Len(ret.hourly_volume) :
          /\ ret.hourly_volume[i].count > 0
          /\ ret.hourly_volume[j].count = 0
          /\ i < j

(* Snapshots of the most frequent queries *)

TopTexts == {"Help", " help ", "HELP", "refund", "Login", "bug "}

LogQueryText ==
    /\ Len(logged) < MaxCalls
    /\ \E query \in TopTexts : log_query(query, "ok", "technical", 85, 4, "cust", "s1")
    /\ UNCHANGED <<sent, manager, endpoints, answers>>

GetAnalyticsNow == get_analytics(0)

NextTop == LogQueryText \/ GetAnalyticsNow

SpecTop == Init /\ [][NextTop]_vars

(* Sessions and their snapshots, within the first hour *)

SessionTick ==
    /\ clock < TicksPerHour
    /\ Tick

SessionLogQuery ==
    /\ Len(logged) < MaxSessionCalls
    /\ \E a \in AgentTypes, sid \in SessionIds :
          log_query("Help", "ok", a, IF a = "technical" THEN 90 ELSE 75, 4, "cust", sid)
    /\ UNCHANGED <<sent, manager, endpoints, answers>>

GetSessionAnalytics ==
    \E session_id \in SessionIds \cup {"s3"} : get_session_analytics(session_id)

NextSession == Initialize \/ SessionTick \/ SessionLogQuery \/ GetSessionAnalytics

SpecSession == Init /\ [][NextSession]_vars

(* Sessions that several customers write to, within the first hour *)

CustomerIds == {"c1", "c2"}

CustomerLogQuery ==
    /\ Len(logged) < MaxSessionCalls
    /\ \E a \in AgentTypes, sid \in SessionIds, customer_id \in CustomerIds :
          log_query("Help", "ok", a, 85, 4, customer_id, sid)
    /\ UNCHANGED <<sent, manager, endpoints, answers>>

NextCustomers == Initialize \/ SessionTick \/ CustomerLogQuery

SpecCustomers == Init /\ [][NextCustomers]_vars

(* Real-time metrics, over the two hours after start *)

\* t > now - timedelta(minutes=m)
within_minutes(t, now, m) == (now - t) * 60 < m * TicksPerHour

\* the records of the history with timestamp > utcnow() - timedelta(hours=1)
last_hour(h, now) ==
    SelectSeq(h, LAMBDA q : fromisoformat(q.timestamp) > now - hours(1))

\* get_real_time_metrics: a plain method without a try block.
\* statistics.mean of an empty list raises StatisticsError, and the guard
\* before it asks whether the history is empty, not the list.
get_real_time_metrics ==
    LET recent == last_hour(query_history, clock)
        active == {sid \in DOMAIN session_data :
                      within_minutes(session_data[sid].last_activity, clock, 5)}
    IN /\ ret' = IF query_history # <<>> /\ recent = <<>>
                 THEN [op |-> "get_real_time_metrics", outcome |-> "raised",
                       fault |-> "StatisticsError"]
                 ELSE [op |-> "get_real_time_metrics", outcome |-> "returned",
                       fault |-> "none",
                       active_sessions |-> Cardinality(active),
                       queries_last_hour |-> Len(recent),
                       avg_confidence_last_hour |->
                           IF query_history = <<>>
                           THEN [num |-> 0, den |-> 1]
                           ELSE [num |-> SumSeq([i \in 1..Len(recent) |->
                                                    recent[i].confidence]),
                                 den |-> Len(recent)],
                       system_status |-> "healthy"]
       /\ UNCHANGED <<query_history, session_data, agent_metrics, feedback_data,
                      system_metrics, initialized, clock, logged, sent,
                      orchestrator, manager, endpoints, answers>>

RealTimeTick ==
    /\ clock < hours(2)
    /\ Tick

GetRealTimeMetrics == get_real_time_metrics

NextRealTime == RealTimeTick \/ SessionLogQuery \/ GetRealTimeMetrics

SpecRealTime == Init /\ [][NextRealTime]_vars

(* Snapshots taken while queries are logged.  get_analytics and             *)
(* get_session_analytics are coroutines that await nothing, as log_query is: *)
(* the event loop runs each call whole, in any order with the others.        *)

NextSnapshot == Initialize \/ SessionLogQuery \/ GetAnalyticsNow \/ GetSessionAnalytics

SpecSnapshot == Init /\ [][NextSnapshot]_vars

(* Feedback: log_feedback takes whatever integer it is handed as rating *)

FeedbackRatings == {0, 1, 3, 5, 6}

FeedbackLogQuery ==
    /\ Len(logged) < MaxFeedbackQueries
    /\ \E a \in AgentTypes : log_query("Help", "ok", a, 85, 4, "cust", "s1")
    /\ UNCHANGED <<sent, manager, endpoints, answers>>

FeedbackCall ==
    /\ Len(feedback_data) < MaxFeedbackCalls
    /\ \E sid \in SessionIds, r \in FeedbackRatings : log_feedback(sid, r, "")

NextFeedback == Initialize \/ FeedbackLogQuery \/ FeedbackCall

SpecFeedback == Init /\ [][NextFeedback]_vars

----------------------------------------------------------------------------
(* The intent classifiers *)

\* p in q, for strings
contains(p, q) ==
    \E i \in 1..(Len(q) - Len(p) + 1) : SubSeq(q, i, i + Len(p) - 1) = p

\* how many entries of the list are in q: the loops "for x in list: if x in q"
hits(list, q) == Cardinality({i \in 1..Len(list) : contains(list[i], q)})

\* any(x in q for x in list)
any_in(list, q) == \E i \in 1..Len(list) : contains(list[i], q)

\* the lists of SimpleOrchestrator._classify_intent
simple_lexicon ==
    [technical_phrases |->
        <<"cannot log", "can't log", "unable to access", "won't load",
          "not loading", "application is", "app is", "showing error",
          "login issue", "technical issue">>,
     billing_phrases |->
        <<"charged twice", "billed twice", "double charge",
          "cancel subscription", "how do i cancel", "want to cancel",
          "billing problem", "billing issue">>,
     technical_keywords |->
        <<"login", "log in", "sign in", "access", "password", "account",
          "error", "bug", "not working", "broken", "technical",
          "application", "app", "reset">>,
     billing_keywords |->
        <<"billing", "payment", "charge", "charged", "invoice",
          "subscription", "refund", "cancel", "upgrade", "downgrade",
          "price", "cost", "twice", "double", "money">>,
     generic_words |-> <<"issue", "problem", "question", "help", "support">>,
     technical_strong |->
        <<"technical", "login", "password", "access", "app", "application">>,
     billing_strong |->
        <<"billing", "payment", "charge", "subscription", "money">>,
     technical_indicators |->
        <<"login", "password", "access", "account", "technical">>,
     billing_indicators |->
        <<"billing", "charge", "payment", "subscription", "money">>]

\* the lists of CustomerServiceOrchestrator._classify_intent
orchestrator_lexicon ==
    [technical_phrases |->
        <<"cannot log", "can't log", "unable to access", "won't load",
          "not loading", "application is", "app is", "showing error",
          "login issue", "technical issue", "technical problem">>,
     billing_phrases |->
        <<"charged twice", "billed twice", "double charge",
          "cancel subscription", "how do i cancel", "want to cancel",
          "subscription cost", "billing problem", "billing issue",
          "payment problem">>,
     technical_keywords |->
        <<"login", "log in", "sign in", "access", "password", "account",
          "error", "bug", "not working", "broken", "crash", "slow",
          "technical", "application", "app", "reset", "unlock",
          "authenticate", "verification">>,
     billing_keywords |->
        <<"billing", "payment", "charge", "charged", "invoice",
          "subscription", "refund", "cancel", "upgrade", "downgrade",
          "price", "cost", "twice", "double", "money", "credit card",
          "bank", "transaction">>,
     generic_words |-> <<"issue", "problem", "question", "help", "support">>,
     technical_strong |->
        <<"technical", "login", "password", "access", "app", "application">>,
     billing_strong |->
        <<"billing", "payment", "charge", "subscription", "money">>,
     technical_indicators |->
        <<"login", "password", "access", "account", "technical">>,
     billing_indicators |->
        <<"billing", "charge", "payment", "subscription", "money">>]

PhraseWeight == 5
ComboWeight == 3
KeywordWeight == 1

\* a score with phrases weighing no more than keywords
score_light_phrases(phrases, strong, generic, keywords, q) ==
    KeywordWeight * hits(phrases, q)
    + (IF any_in(strong, q) /\ any_in(generic, q) THEN ComboWeight ELSE 0)
    + KeywordWeight * hits(keywords, q)

\* a score whose combination bonus outweighs a phrase
score_heavy_combo(phrases, strong, generic, keywords, q) ==
    PhraseWeight * hits(phrases, q)
    + (IF any_in(strong, q) /\ any_in(generic, q) THEN PhraseWeight + 1 ELSE 0)
    + KeywordWeight * hits(keywords, q)

\* technical_score, billing_score: phrases, then the combination of a strong
\* word with a generic word, then keywords
score(phrases, strong, generic, keywords, q) ==
    PhraseWeight * hits(phrases, q)
    + (IF any_in(strong, q) /\ any_in(generic, q) THEN ComboWeight ELSE 0)
    + KeywordWeight * hits(keywords, q)

\* a decision whose tie-break has no way out: the function ends without a
\* return statement, and the caller gets None
decide_no_default(lex, technical_score, billing_score, q) ==
    IF technical_score > billing_score /\ technical_score > 0 THEN "technical"
    ELSE IF billing_score > technical_score /\ billing_score > 0 THEN "billing"
    ELSE IF technical_score = billing_score /\ technical_score > 0
         THEN IF any_in(lex.technical_indicators, q) THEN "technical"
              ELSE IF any_in(lex.billing_indicators, q) THEN "billing"
              ELSE "None"
         ELSE "general"

\* a decision that gives a tie without indicator words to technical
decide_tie_to_technical(lex, technical_score, billing_score, q) ==
    IF technical_score > billing_score /\ technical_score > 0 THEN "technical"
    ELSE IF billing_score > technical_score /\ billing_score > 0 THEN "billing"
    ELSE IF technical_score = billing_score /\ technical_score > 0
         THEN IF any_in(lex.billing_indicators, q)
                 /\ ~any_in(lex.technical_indicators, q)
              THEN "billing"
              ELSE "technical"
         ELSE "general"

\* a decision that wants a lead of more than one point
decide_needs_margin(lex, technical_score, billing_score, q) ==
    IF technical_score > billing_score + 1 THEN "technical"
    ELSE IF billing_score > technical_score + 1 THEN "billing"
    ELSE IF technical_score > 0
         THEN IF any_in(lex.technical_indicators, q) THEN "technical"
              ELSE IF any_in(lex.billing_indicators, q) THEN "billing"
              ELSE "general"
         ELSE "general"

\* a decision whose tie-break looks at the billing indicators first
decide_billing_first(lex, technical_score, billing_score, q) ==
    IF technical_score > billing_score /\ technical_score > 0 THEN "technical"
    ELSE IF billing_score > technical_score /\ billing_score > 0 THEN "billing"
    ELSE IF technical_score = billing_score /\ technical_score > 0
         THEN IF any_in(lex.billing_indicators, q) THEN "billing"
              ELSE IF any_in(lex.technical_indicators, q) THEN "technical"
              ELSE "general"
         ELSE "general"

\* the decision: the if / elif / elif chain and the final return 'general'
decide(lex, technical_score, billing_score, q) ==
    IF technical_score > billing_score /\ technical_score > 0 THEN "technical"
    ELSE IF billing_score > technical_score /\ billing_score > 0 THEN "billing"
    ELSE IF technical_score = billing_score /\ technical_score > 0
         THEN IF any_in(lex.technical_indicators, q) THEN "technical"
              ELSE IF any_in(lex.billing_indicators, q) THEN "billing"
              ELSE "general"
         ELSE "general"

\* a technical score that counts the generic words as keywords
technical_score_counts_generic(lex, q) ==
    score(lex.technical_phrases, lex.technical_strong, lex.generic_words,
          lex.technical_keywords, q)
    + KeywordWeight * hits(lex.generic_words, q)

technical_score(lex, q) ==
    score(lex.technical_phrases, lex.technical_strong, lex.generic_words,
          lex.technical_keywords, q)

billing_score(lex, q) ==
    score(lex.billing_phrases, lex.billing_strong, lex.generic_words,
          lex.billing_keywords, q)

\* the body the two _classify_intent share, over the lists of either
classify_intent(lex, query) ==
    LET query_lower == lower(query)
    IN decide(lex, technical_score(lex, query_lower),
              billing_score(lex, query_lower), query_lower)

\* SimpleOrchestrator._classify_intent
simple_classify_intent(query) == classify_intent(simple_lexicon, query)

\* a classifier that looks for its lower-case entries in the text as typed
orchestrator_classify_as_typed(query) ==
    decide(orchestrator_lexicon, technical_score(orchestrator_lexicon, query),
           billing_score(orchestrator_lexicon, query), query)

\* CustomerServiceOrchestrator._classify_intent; nothing in its try block
\* raises on a string, so its except branch is never taken
orchestrator_classify_intent(query) == classify_intent(orchestrator_lexicon, query)

(* The classifiers over a set of query texts *)

Fragments ==
    {"Login issue", "with payment", "billing problem", "with login",
     "won't load", "charged", "refund", "error", "help", "account"}

RECURSIVE join(_)
join(fs) ==
    IF Len(fs) = 0 THEN ""
    ELSE IF Len(fs) = 1 THEN fs[1]
    ELSE fs[1] \o " " \o join(Tail(fs))

Queries ==
    {join(fs) : fs \in UNION {[1..n -> Fragments] : n \in 0..MaxFragments}}

InitClassify ==
    /\ InitAggregator
    /\ InitManager
    /\ InitOrchestrator
    /\ ret \in {[op |-> "query", query |-> q] : q \in Queries}

ClassifySimple ==
    /\ ret.op = "query"
    /\ ret' = [op |-> "classify_intent",
               impl |-> "SimpleOrchestrator",
               query |-> ret.query,
               intent |-> simple_classify_intent(ret.query),
               outcome |-> "returned"]
    /\ UNCHANGED <<query_history, session_data, agent_metrics, feedback_data,
                   system_metrics, initialized, clock, logged, sent, orchestrator,
                   manager, endpoints, answers>>

ClassifyOrchestrator ==
    /\ ret.op = "query"
    /\ ret' = [op |-> "classify_intent",
               impl |-> "CustomerServiceOrchestrator",
               query |-> ret.query,
               intent |-> orchestrator_classify_intent(ret.query),
               outcome |-> "returned"]
    /\ UNCHANGED <<query_history, session_data, agent_metrics, feedback_data,
                   system_metrics, initialized, clock, logged, sent, orchestrator,
                   manager, endpoints, answers>>

NextClassify == ClassifySimple \/ ClassifyOrchestrator

SpecClassify == InitClassify /\ [][NextClassify]_vars

(* The two classifiers over texts with and without the entries that only *)
(* CustomerServiceOrchestrator has                                        *)

MaxAgreeFragments == 2

AgreeFragments ==
    {"Login issue", "refund", "error", "billing problem", "App is SLOW",
     "crash", "payment problem", "my bank", "Subscription cost", "help"}

AgreeQueries ==
    {join(fs) : fs \in UNION {[1..n -> AgreeFragments] : n \in 0..MaxAgreeFragments}}

InitAgree ==
    /\ InitAggregator
    /\ InitManager
    /\ InitOrchestrator
    /\ ret \in {[op |-> "query", query |-> q] : q \in AgreeQueries}

SpecAgree == InitAgree /\ [][NextClassify]_vars

----------------------------------------------------------------------------
(* Properties of the classifiers *)

Classified == ret.op = "classify_intent"
LexOf(impl) == IF impl = "SimpleOrchestrator" THEN simple_lexicon ELSE orchestrator_lexicon
RetLex == LexOf(ret.impl)
RetText == lower(ret.query)

HasTechnicalPhrase == any_in(RetLex.technical_phrases, RetText)
HasBillingPhrase == any_in(RetLex.billing_phrases, RetText)

\* what a text collects for an intent beside its phrases: 3 for a strong word
\* together with a generic word, 1 for each keyword
TechnicalPoints ==
    (IF any_in(RetLex.technical_strong, RetText) /\ any_in(RetLex.generic_words, RetText)
     THEN 3 ELSE 0) + hits(RetLex.technical_keywords, RetText)
BillingPoints ==
    (IF any_in(RetLex.billing_strong, RetText) /\ any_in(RetLex.generic_words, RetText)
     THEN 3 ELSE 0) + hits(RetLex.billing_keywords, RetText)

\* C8 as stated: a text with a technical phrase and no billing phrase is
\* technical, whatever else it contains; the same with the intents exchanged.
C8_PhraseDecides ==
    Classified =>
       /\ (HasTechnicalPhrase /\ ~HasBillingPhrase) => ret.intent = "technical"
       /\ (HasBillingPhrase /\ ~HasTechnicalPhrase) => ret.intent = "billing"

\* C8 as amended: a text with a technical phrase and no billing phrase is
\* technical provided its billing keywords and billing combination bonus add
\* up to fewer than 5 points, the weight of one phrase; the same with the
\* intents exchanged.
C8_PhraseDecidesBelowPhraseWeight ==
    Classified =>
       /\ (HasTechnicalPhrase /\ ~HasBillingPhrase /\ BillingPoints < 5)
             => ret.intent = "technical"
       /\ (HasBillingPhrase /\ ~HasTechnicalPhrase /\ TechnicalPoints < 5)
             => ret.intent = "billing"

\* a technical phrase against 4 billing points
C8_Witness ==
    /\ Classified
    /\ HasTechnicalPhrase
    /\ ~HasBillingPhrase
    /\ BillingPoints = 4
    /\ ret.intent = "technical"

\* C9: _classify_intent returns technical, billing or general for every
\* text, the empty one included, and never raises.
C9_ClassifierIsTotal ==
    Classified =>
       /\ ret.intent \in {"technical", "billing", "general"}
       /\ ret.outcome = "returned"

\* the empty text
C9_Witness ==
    /\ Classified
    /\ ret.query = ""
    /\ ret.intent = "general"

\* C10: a phrase of one intent wins over the other intent's combination
\* bonus and one keyword.
C10_PhraseDominatesMixedKeywords ==
    Classified =>
       /\ (/\ HasTechnicalPhrase
           /\ ~HasBillingPhrase
           /\ hits(RetLex.billing_keywords, RetText) <= 1)
             => ret.intent = "technical"
       /\ (/\ HasBillingPhrase
           /\ ~HasTechnicalPhrase
           /\ hits(RetLex.technical_keywords, RetText) <= 1)
             => ret.intent = "billing"

\* "Login issue with payment": the payment side has its bonus and a keyword
C10_Witness ==
    /\ Classified
    /\ ret.impl = "SimpleOrchestrator"
    /\ ret.query = "Login issue with payment"
    /\ BillingPoints = 4
    /\ ret.intent = "technical"

\* C11: a text with no technical or billing phrase and no technical or
\* billing keyword is general, whatever generic words (help, support, issue,
\* problem, question) it contains.
C11_GenericWordsAloneAreGeneral ==
    Classified =>
       ((/\ ~HasTechnicalPhrase
         /\ ~HasBillingPhrase
         /\ hits(RetLex.technical_keywords, RetText) = 0
         /\ hits(RetLex.billing_keywords, RetText) = 0)
           => ret.intent = "general")

\* "help help": generic words and nothing else
C11_Witness ==
    /\ Classified
    /\ ret.query = "help help"
    /\ any_in(RetLex.generic_words, RetText)
    /\ hits(RetLex.technical_keywords, RetText) = 0
    /\ hits(RetLex.billing_keywords, RetText) = 0
    /\ ret.intent = "general"

----------------------------------------------------------------------------
(* CustomerServiceOrchestrator: knowledge base, retrieval, routing *)

(* An embedding is a vector of integers.  SentenceTransformer.encode is an   *)
(* external function; the model draws what it returns from Embeddings, none *)
(* of them the zero vector, or lets the call raise.                          *)
Embeddings == {<<1, 0>>, <<1, 1>>, <<-1, 0>>}

KnowledgeBaseSize == 5
DefaultTopK == 3

\* the agents dict of initialize: each key with the agent of that name
AgentNames == {"technical", "billing", "general"}

\* docs of _setup_knowledge_base, with the embeddings that encode returned
\* for their contents; a doc's content is told by its id
docs(embs) ==
    [i \in 1..KnowledgeBaseSize |->
        [id |-> <<"1", "2", "3", "4", "5">>[i],
         title |-> <<"Login Issues", "Billing Cycles", "Account Cancellation",
                     "Performance Issues", "Feature Requests">>[i],
         category |-> <<"technical", "billing", "billing", "technical",
                        "general">>[i],
         embedding |-> embs[i]]]

\* initialize on the orchestrator o: load is what SentenceTransformer(...)
\* does, encode_docs what encode does in _setup_knowledge_base, embs the
\* embeddings it returns.  An exception leaves what was assigned before it
\* and is raised again.
orchestrator_initialize(o, load, encode_docs, embs) ==
    IF load = "raises"
    THEN [state |-> o, outcome |-> "raised"]
    ELSE LET o1 == [o EXCEPT !.embedding_model = "loaded", !.agents = AgentNames]
         IN IF encode_docs = "raises"
            THEN [state |-> o1, outcome |-> "raised"]
            ELSE [state |-> [o1 EXCEPT !.knowledge_base = docs(embs),
                                       !.initialized = TRUE],
                  outcome |-> "returned"]

\* cleanup: the knowledge base stays
orchestrator_cleanup(o) ==
    [o EXCEPT !.embedding_model = "None", !.agents = {}, !.initialized = FALSE]

\* np.dot(a, b)
dot(a, b) == SumSeq([i \in 1..Len(a) |-> a[i] * b[i]])

\* np.dot(q, e) / (np.linalg.norm(q) * np.linalg.norm(e)), kept as the
\* fraction sign(q.e) (q.e)^2 / (|q|^2 |e|^2): it orders the pairs (q, e) as
\* the cosine does, and is in integers
similarity(q, e) ==
    LET d == dot(q, e)
    IN [num |-> IF d < 0 THEN -(d * d) ELSE d * d, den |-> dot(q, q) * dot(e, e)]

\* x > y for two similarities
greater(x, y) == x.num * y.den > y.num * x.den

\* the list put in ascending order
sort_ascending(similarities) ==
    LET before(i, j) ==
            \/ greater(similarities[j][2], similarities[i][2])
            \/ /\ ~greater(similarities[i][2], similarities[j][2])
               /\ i < j
        place(i) == 1 + Cardinality({j \in 1..Len(similarities) : before(j, i)})
    IN [p \in 1..Len(similarities) |->
           similarities[CHOOSE i \in 1..Len(similarities) : place(i) = p]]

\* a descending sort that turns around the entries of equal similarity, as
\* sorting ascending and reversing the list would
sort_descending_ties_reversed(similarities) ==
    LET before(i, j) ==
            \/ greater(similarities[i][2], similarities[j][2])
            \/ /\ ~greater(similarities[j][2], similarities[i][2])
               /\ i > j
        place(i) == 1 + Cardinality({j \in 1..Len(similarities) : before(j, i)})
    IN [p \in 1..Len(similarities) |->
           similarities[CHOOSE i \in 1..Len(similarities) : place(i) = p]]

\* similarities.sort(key=lambda x: x[1], reverse=True): descending by
\* similarity; list.sort is stable, and with reverse=True entries of equal
\* key still keep the order they had
sort_descending(similarities) ==
    LET before(i, j) ==
            \/ greater(similarities[i][2], similarities[j][2])
            \/ /\ ~greater(similarities[j][2], similarities[i][2])
               /\ i < j
        place(i) == 1 + Cardinality({j \in 1..Len(similarities) : before(j, i)})
    IN [p \in 1..Len(similarities) |->
           similarities[CHOOSE i \in 1..Len(similarities) : place(i) = p]]

\* a handler that lets the exception through
retrieve_context_propagates(fault) ==
    IF fault = "none" THEN "returned" ELSE "raised"

\* "except Exception as e: ... return []" of _retrieve_context
retrieve_context_except(fault) == "returned"

\* _retrieve_context on the orchestrator o: encode is what
\* embedding_model.encode does for the query, query_embedding what it
\* returns.  Without a loaded model the call of encode on None raises
\* AttributeError.
retrieve_context(o, encode, query_embedding, top_k) ==
    IF o.knowledge_base = <<>>
    THEN [outcome |-> "returned", fault |-> "none", docs |-> <<>>]
    ELSE IF o.embedding_model = "None"
    THEN [outcome |-> retrieve_context_except("AttributeError"),
          fault |-> "AttributeError", docs |-> <<>>]
    ELSE IF encode = "raises"
    THEN [outcome |-> retrieve_context_except("encode"),
          fault |-> "encode", docs |-> <<>>]
    ELSE LET similarities ==
                [i \in 1..Len(o.knowledge_base) |->
                    <<i, similarity(query_embedding,
                                    o.knowledge_base[i].embedding)>>]
             top == slice_to(sort_descending(similarities), top_k)
         IN [outcome |-> "returned", fault |-> "none",
             docs |-> [p \in 1..Len(top) |-> o.knowledge_base[top[p][1]]]]

\* agents that keep count: they escalate every query after their first
handle_query_after_first(agent, query, context, customer_id, priority) ==
    [response |-> [template |-> agent,
                   with_context |-> context # <<>>,
                   relevant_info |-> [i \in 1..Len(context) |-> context[i].id]],
     agent_type |-> agent,
     confidence |-> 85,
     escalate |-> answers # <<>>]

\* handle_query of TechnicalSupportAgent, BillingAgent, GeneralSupportAgent.
\* The response text is told by its template and by the documents whose
\* contents are joined into it; confidence is in hundredths.
handle_query(agent, query, context, customer_id, priority) ==
    [response |-> [template |-> agent,
                   with_context |-> context # <<>>,
                   relevant_info |-> [i \in 1..Len(context) |-> context[i].id]],
     agent_type |-> agent,
     confidence |-> CASE agent = "technical" -> 85
                      [] agent = "billing" -> 90
                      [] OTHER -> 75,
     escalate |-> CASE agent = "technical" -> priority = "urgent"
                    [] agent = "billing" ->
                          \/ contains("refund", lower(query))
                          \/ contains("cancel", lower(query))
                    [] OTHER -> priority \in {"high", "urgent"}]

\* the record process_query returns from its except branch
fallback_record ==
    [response |-> [template |-> "apology", with_context |-> FALSE,
                   relevant_info |-> <<>>],
     agent_type |-> "error",
     confidence |-> 0,
     escalate |-> TRUE]

\* process_query.  initialize() is called before the try block is entered,
\* so what it raises leaves process_query.  Inside the try block, an
\* exception leaving _retrieve_context would end in the except branch, and
\* self.agents.get(intent, self.agents['general']) evaluates
\* self.agents['general'] whatever the intent is.
process_query(query, customer_id, session_id, priority, load, encode_docs, embs, encode, query_embedding) ==
    LET init == IF orchestrator.initialized
                THEN [state |-> orchestrator, outcome |-> "returned"]
                ELSE orchestrator_initialize(orchestrator, load, encode_docs, embs)
        o == init.state
        call == [op |-> "process_query", query |-> query,
                 customer_id |-> customer_id, session_id |-> session_id,
                 priority |-> priority, encode |-> encode,
                 knowledge_base_built |->
                     ~orchestrator.initialized /\ init.outcome = "returned"]
    IN /\ orchestrator' = o
       /\ IF init.outcome = "raised"
          THEN ret' = call @@ [outcome |-> "raised",
                               retrieval |-> [outcome |-> "not reached",
                                              fault |-> "none", docs |-> <<>>]]
          ELSE LET intent == orchestrator_classify_intent(query)
                   context == retrieve_context(o, encode, query_embedding,
                                               DefaultTopK)
               IN IF context.outcome = "raised" \/ "general" \notin o.agents
                  THEN ret' = call @@ [outcome |-> "returned",
                                       retrieval |-> context,
                                       result |-> fallback_record]
                  ELSE LET agent == IF intent \in o.agents THEN intent
                                    ELSE "general"
                           response == handle_query(agent, query, context.docs,
                                                    customer_id, priority)
                       IN ret' = call @@
                             [outcome |-> "returned",
                              retrieval |-> context,
                              result |-> response @@
                                 [intent |-> intent,
                                  session_id |-> session_id,
                                  knowledge_sources |-> Len(context.docs)]]
       /\ UNCHANGED <<query_history, session_data, agent_metrics, feedback_data,
                      system_metrics, initialized, clock, logged, sent, manager,
                      endpoints>>

\* process_ai_query of main.py: no retrieval, no priority; nothing in its try
\* block raises
process_ai_query(query, customer_id) ==
    LET agent_type == simple_classify_intent(query)
        confidence == CASE agent_type = "technical" -> 90
                        [] agent_type = "billing" -> 85
                        [] OTHER -> 75
    IN [response |-> [template |-> agent_type, with_context |-> FALSE,
                      relevant_info |-> <<>>],
        agent_type |-> agent_type,
        confidence |-> confidence,
        escalate |-> confidence < 80]

(* Retrieval over the knowledge bases the embeddings can make *)

TopKs == {-6, -2, 0, 2, 3, 6}

InitRetrieve ==
    /\ InitAggregator
    /\ InitManager
    /\ orchestrator \in
          {new_orchestrator} \cup
          {orchestrator_initialize(new_orchestrator, "ok", "ok", embs).state :
              embs \in [1..KnowledgeBaseSize -> Embeddings]}
    /\ ret = [op |-> "none"]

RetrieveContext ==
    /\ \E encode \in {"ok", "raises"}, query_embedding \in Embeddings, top_k \in TopKs :
          ret' = [op |-> "retrieve_context",
                  encode |-> encode,
                  query_embedding |-> query_embedding,
                  top_k |-> top_k]
                 @@ retrieve_context(orchestrator, encode, query_embedding, top_k)
    /\ UNCHANGED <<query_history, session_data, agent_metrics, feedback_data,
                   system_metrics, initialized, clock, logged, sent,
                   orchestrator, manager, endpoints, answers>>

Cleanup ==
    /\ orchestrator' = orchestrator_cleanup(orchestrator)
    /\ ret' = [op |-> "cleanup"]
    /\ UNCHANGED <<query_history, session_data, agent_metrics, feedback_data,
                   system_metrics, initialized, clock, logged, sent, manager, endpoints, answers>>

NextRetrieve == RetrieveContext \/ Cleanup

SpecRetrieve == InitRetrieve /\ [][NextRetrieve]_vars

(* Routing: the orchestrator serving queries, and process_ai_query *)

RouteQueries == {"Login issue", "Refund please", "billing problem", "help"}
Priorities == {"medium", "high", "urgent"}
\* what the embedding model of SpecRoute returns for the five documents
RouteEmbeddings == {<<(<<1, 0>>), (<<1, 1>>), (<<1, 1>>), (<<-1, 0>>), (<<1, 0>>)>>}

OrchestratorInitialize ==
    /\ \E load \in {"ok", "raises"}, encode_docs \in {"ok", "raises"}, embs \in RouteEmbeddings :
          LET init == orchestrator_initialize(orchestrator, load, encode_docs, embs)
          IN /\ orchestrator' = init.state
             /\ ret' = [op |-> "initialize_orchestrator", outcome |-> init.outcome,
                        knowledge_base_built |-> init.outcome = "returned"]
    /\ UNCHANGED <<query_history, session_data, agent_metrics, feedback_data,
                   system_metrics, initialized, clock, logged, sent, manager, endpoints, answers>>

\* the embedding model is asked only for what the call gets to: it is not
\* loaded again by an initialized orchestrator, and it returns no embedding
\* when encode raises
ProcessQuery ==
    /\ UNCHANGED answers
    /\ \E query \in RouteQueries, priority \in Priorities :
       \E load \in (IF orchestrator.initialized THEN {"ok"} ELSE {"ok", "raises"}) :
          \E encode_docs \in (IF orchestrator.initialized \/ load = "raises" THEN {"ok"} ELSE {"ok", "raises"}) :
             \E embs \in RouteEmbeddings, encode \in {"ok", "raises"} :
                \E query_embedding \in (IF encode = "raises" THEN {<<1, 0>>} ELSE Embeddings) :
                   process_query(query, "cust", "s1", priority, load,
                                 encode_docs, embs, encode, query_embedding)

\* the endpoint of main.py takes a priority with the request and calls
\* process_ai_query(query, customer_id) without it
ProcessAiQuery ==
    /\ \E query \in RouteQueries, priority \in Priorities :
          ret' = [op |-> "process_ai_query", query |-> query,
                  customer_id |-> "cust", priority |-> priority,
                  outcome |-> "returned",
                  result |-> process_ai_query(query, "cust")]
    /\ UNCHANGED <<query_history, session_data, agent_metrics, feedback_data,
                   system_metrics, initialized, clock, logged, sent,
                   orchestrator, manager, endpoints, answers>>

NextRoute ==
    \/ OrchestratorInitialize
    \/ ProcessQuery
    \/ RetrieveContext
    \/ Cleanup
    \/ ProcessAiQuery

SpecRoute == Init /\ [][NextRoute]_vars

(* Calls answered by an initialized orchestrator, one after the other.   *)
(* process_query awaits only coroutines that never suspend, so the event  *)
(* loop runs each call whole.                                            *)

MaxAnswers == 3

AnswerQueries == {"Login issue", "help"}
AnswerSessionIds == {"s1", "s2"}
AnswerPriorities == {"medium", "urgent"}

\* embedding_model.encode([query])[0] of the loaded model: the vector is told
\* by the text
encode_query(query) ==
    CASE query = "Login issue" -> <<1, 0>>
      [] query = "help" -> <<1, 1>>
      [] OTHER -> <<-1, 0>>

AnsweredProcessQuery ==
    /\ orchestrator.initialized
    /\ Len(answers) < MaxAnswers
    /\ \E query \in AnswerQueries, session_id \in AnswerSessionIds, priority \in AnswerPriorities :
          /\ \E embs \in RouteEmbeddings :
                process_query(query, "cust", session_id, priority, "ok", "ok",
                              embs, "ok", encode_query(query))
          /\ answers' = Append(answers,
                               [query |-> query, customer_id |-> "cust",
                                session_id |-> session_id, priority |-> priority,
                                result |-> ret'.result])

NextAnswers == OrchestratorInitialize \/ AnsweredProcessQuery

SpecAnswers == Init /\ [][NextAnswers]_vars

(* The life of one orchestrator: initialize, process_query, health_check *)
(* and cleanup in any order                                               *)

\* health_check on the orchestrator o: encode is what
\* embedding_model.encode(["test"]) does when there is a model
health_check(o, encode) ==
    IF ~o.initialized THEN FALSE
    ELSE IF o.embedding_model # "None" /\ encode = "raises" THEN FALSE
    ELSE TRUE

HealthCheck ==
    /\ \E encode \in {"ok", "raises"} :
          ret' = [op |-> "health_check", encode |-> encode,
                  outcome |-> "returned",
                  knowledge_base_built |-> FALSE,
                  result |-> health_check(orchestrator, encode)]
    /\ UNCHANGED <<query_history, session_data, agent_metrics, feedback_data,
                   system_metrics, initialized, clock, logged, sent,
                   orchestrator, manager, endpoints, answers>>

NextLifecycle == OrchestratorInitialize \/ ProcessQuery \/ HealthCheck \/ Cleanup

SpecLifecycle == Init /\ [][NextLifecycle]_vars

(* The websocket endpoint of main.py and its ConnectionManager.  Between  *)
(* two awaits an endpoint runs alone: connect after accept(), the handling *)
(* of one message, and disconnect are each one step.                      *)

\* a dict with the key set
dict_set(d, key, value) ==
    [k \in DOMAIN d \cup {key} |-> IF k = key THEN value ELSE d[k]]

\* del d[key]
dict_del(d, key) == [k \in DOMAIN d \ {key} |-> d[k]]

\* list.remove(x): the first x is taken out; ValueError without one is passed
list_remove(l, x) ==
    IF \E i \in 1..Len(l) : l[i] = x
    THEN LET first == CHOOSE i \in 1..Len(l) :
                         l[i] = x /\ \A j \in 1..(i - 1) : l[j] # x
         IN SubSeq(l, 1, first - 1) \o SubSeq(l, first + 1, Len(l))
    ELSE l

\* ConnectionManager.connect, after websocket.accept()
manager_connect(m, websocket, session_id) ==
    [active_connections |-> Append(m.active_connections, websocket),
     user_sessions |-> dict_set(m.user_sessions, session_id, websocket)]

\* ConnectionManager.disconnect
manager_disconnect(m, websocket, session_id) ==
    [active_connections |-> list_remove(m.active_connections, websocket),
     user_sessions |-> IF session_id \in DOMAIN m.user_sessions
                       THEN dict_del(m.user_sessions, session_id)
                       ELSE m.user_sessions]

\* ConnectionManager.send_personal_message: the websocket the text is sent
\* to, "nobody" when the session_id has no entry
send_personal_message(m, session_id) ==
    IF session_id \in DOMAIN m.user_sessions
    THEN m.user_sessions[session_id]
    ELSE "nobody"

WebsocketSessionIds == {"s1", "s2"}

\* websocket_endpoint up to its first receive_text
WebsocketConnect ==
    /\ \E ws \in Websockets, session_id \in WebsocketSessionIds :
          /\ endpoints[ws].state = "closed"
          /\ manager' = manager_connect(manager, ws, session_id)
          /\ endpoints' = [endpoints EXCEPT
                             ![ws] = [state |-> "open", session_id |-> session_id]]
          /\ ret' = [op |-> "connect", websocket |-> ws, session_id |-> session_id]
    /\ UNCHANGED <<query_history, session_data, agent_metrics, feedback_data,
                   system_metrics, initialized, clock, logged, sent, orchestrator,
                   answers>>

\* one turn of the loop: a text that is no JSON or has no query is skipped,
\* a query is answered through send_personal_message
WebsocketMessage ==
    /\ \E ws \in Websockets, data \in {"not json", "no query", "query"} :
          /\ endpoints[ws].state = "open"
          /\ ret' = [op |-> "message", websocket |-> ws,
                     session_id |-> endpoints[ws].session_id,
                     data |-> data]
                    @@ (IF data = "query"
                        THEN [result |-> process_ai_query("help", "anonymous"),
                              sent_to |-> send_personal_message(
                                              manager, endpoints[ws].session_id)]
                        ELSE [sent_to |-> "nothing to send"])
    /\ UNCHANGED <<query_history, session_data, agent_metrics, feedback_data,
                   system_metrics, initialized, clock, logged, sent, orchestrator,
                   manager, endpoints, answers>>

\* WebSocketDisconnect out of receive_text
WebsocketDisconnect ==
    /\ \E ws \in Websockets :
          /\ endpoints[ws].state = "open"
          /\ manager' = manager_disconnect(manager, ws, endpoints[ws].session_id)
          /\ endpoints' = [endpoints EXCEPT ![ws] = closed]
          /\ ret' = [op |-> "disconnect", websocket |-> ws,
                     session_id |-> endpoints[ws].session_id]
    /\ UNCHANGED <<query_history, session_data, agent_metrics, feedback_data,
                   system_metrics, initialized, clock, logged, sent, orchestrator,
                   answers>>

NextWebsocket == WebsocketConnect \/ WebsocketMessage \/ WebsocketDisconnect

SpecWebsocket == Init /\ [][NextWebsocket]_vars

(* The query endpoint of main.py: POST /api/v1/query.  The body is a JSON   *)
(* object; each of its fields is missing, null or a string.                 *)

QueryMaxLength == 1000

missing == [kind |-> "missing", value |-> ""]
null == [kind |-> "null", value |-> ""]
str(v) == [kind |-> "str", value |-> v]

\* a query field without its max_length
valid_query_any_length(f) == f.kind = "str" /\ Len(f.value) >= 1

\* query: str = Field(..., min_length=1, max_length=1000)
valid_query(f) ==
    f.kind = "str" /\ Len(f.value) >= 1 /\ Len(f.value) <= QueryMaxLength

\* customer_id: str = Field(..., min_length=1)
valid_customer_id(f) == f.kind = "str" /\ Len(f.value) >= 1

\* session_id: Optional[str] = None
valid_session_id(f) == f.kind \in {"missing", "null", "str"}

\* priority: Optional[str] = Field(default="medium",
\*                                 pattern="^(low|medium|high|urgent)$"):
\* the default and None are not matched against the pattern
valid_priority(f) ==
    f.kind \in {"missing", "null"} \/ f.value \in {"low", "medium", "high", "urgent"}

\* the validation of the body as a CustomerQuery
validates(body) ==
    /\ valid_query(body.query)
    /\ valid_customer_id(body.customer_id)
    /\ valid_session_id(body.session_id)
    /\ valid_priority(body.priority)

\* the CustomerQuery a valid body makes: a missing field has its default
CustomerQuery(body) ==
    [query |-> body.query.value,
     customer_id |-> body.customer_id.value,
     session_id |-> IF body.session_id.kind = "str" THEN body.session_id ELSE null,
     priority |-> IF body.priority.kind = "missing" THEN str("medium") ELSE body.priority]

\* query.session_id or str(uuid.uuid4()): None and "" are both falsy
session_id_or(session_id, uuid4) ==
    IF session_id.kind = "str" /\ session_id.value # "" THEN session_id.value ELSE uuid4

\* QueryResponse: confidence ge 0 le 1 (hundredths), response_time ge 0
valid_response(r) ==
    r.confidence >= 0 /\ r.confidence <= 100 /\ r.response_time >= 0

\* what the endpoint answers: 422 from the validation of the body, before the
\* function runs; else the QueryResponse; 500 if building it raises
query_endpoint(body, uuid4, response_time) ==
    IF ~validates(body)
    THEN [status |-> 422, classified |-> FALSE]
    ELSE LET query == CustomerQuery(body)
             session_id == session_id_or(query.session_id, uuid4)
             result == process_ai_query(query.query, query.customer_id)
             response == [response |-> result.response,
                          agent_type |-> result.agent_type,
                          confidence |-> result.confidence,
                          escalate |-> result.escalate,
                          session_id |-> session_id,
                          response_time |-> response_time]
         IN IF valid_response(response)
            THEN [status |-> 200, classified |-> TRUE, response |-> response]
            ELSE [status |-> 500, classified |-> TRUE]

RECURSIVE repeat(_, _)
repeat(c, n) ==
    IF n = 0 THEN ""
    ELSE LET half == repeat(c, n \div 2)
         IN IF n % 2 = 0 THEN half \o half ELSE half \o half \o c

\* the bodies a client sends
BodyQueries ==
    {missing, null, str(""), str(" "), str("help"), str("Login issue"),
     str("refund" \o repeat("x", QueryMaxLength - 6)),
     str(repeat("x", QueryMaxLength + 1))}
BodyCustomerIds == {missing, null, str(""), str("cust")}
BodySessionIds == {missing, null, str(""), str("s1")}
BodyPriorities ==
    {missing, null, str(""), str("low"), str("medium"), str("high"),
     str("urgent"), str("critical"), str("LOW")}
Bodies ==
    [query : BodyQueries, customer_id : BodyCustomerIds,
     session_id : BodySessionIds, priority : BodyPriorities]

\* str(uuid.uuid4()) and time.time() - start_time in milliseconds
Uuids == {"uuid-1", "uuid-2"}
Elapsed == {0, 3}

InitEndpoint ==
    /\ InitAggregator
    /\ InitManager
    /\ InitOrchestrator
    /\ ret \in {[op |-> "request", body |-> b] : b \in Bodies}

QueryEndpoint ==
    /\ ret.op = "request"
    /\ \E uuid4 \in Uuids, response_time \in Elapsed :
          ret' = [op |-> "query_endpoint", body |-> ret.body]
                 @@ query_endpoint(ret.body, uuid4, response_time)
    /\ UNCHANGED <<query_history, session_data, agent_metrics, feedback_data,
                   system_metrics, initialized, clock, logged, sent, orchestrator,
                   manager, endpoints, answers>>

NextEndpoint == QueryEndpoint

SpecEndpoint == InitEndpoint /\ [][NextEndpoint]_vars

----------------------------------------------------------------------------
(* Properties of retrieval and routing *)

Retrieved == ret.op = "retrieve_context"
KnowledgeBase == orchestrator.knowledge_base

\* where the i-th document of the knowledge base is in the returned list;
\* 0 when it is not returned
PositionOf(i) ==
    IF \E p \in 1..Len(ret.docs) : ret.docs[p].id = KnowledgeBase[i].id
    THEN CHOOSE p \in 1..Len(ret.docs) : ret.docs[p].id = KnowledgeBase[i].id
    ELSE 0

\* the similarity of the query of the call to the i-th document
SimilarityOf(i) == similarity(ret.query_embedding, KnowledgeBase[i].embedding)

\* C12: for any two documents A and B with similarity(query, A) >
\* similarity(query, B), B is not returned without A, and when both are
\* returned A comes before B.
C12_RetrievalOrderedBySimilarity ==
    Retrieved =>
       \A a, b \in 1..Len(KnowledgeBase) :
          (greater(SimilarityOf(a), SimilarityOf(b)) /\ PositionOf(b) > 0)
             => (PositionOf(a) > 0 /\ PositionOf(a) < PositionOf(b))

\* a call that returns a later document before an earlier one of lower
\* similarity, and leaves out a document of lower similarity still
C12_Witness ==
    /\ Retrieved
    /\ ret.top_k = DefaultTopK
    /\ Len(ret.docs) = DefaultTopK
    /\ \E a, b, c \in 1..Len(KnowledgeBase) :
          /\ b < a
          /\ greater(SimilarityOf(a), SimilarityOf(b))
          /\ greater(SimilarityOf(b), SimilarityOf(c))
          /\ PositionOf(a) > 0
          /\ PositionOf(b) > PositionOf(a)
          /\ PositionOf(c) = 0

\* C13 as stated: for every integer top_k, 0 and the negative ones included,
\* no more than top_k documents are returned.
C13_LengthAtMostTopK ==
    Retrieved => Len(ret.docs) <= ret.top_k

\* C13 as amended: for top_k >= 0 no more than top_k documents are returned;
\* for top_k < 0 the call, when nothing fails in it, returns all but the last
\* -top_k of the ranked documents: max(0, n + top_k) of the n.
C13_LengthAtMostNonNegativeTopK ==
    Retrieved =>
       /\ ret.top_k >= 0 => Len(ret.docs) <= ret.top_k
       /\ (ret.top_k < 0 /\ ret.fault = "none")
             => Len(ret.docs) = Max(0, Len(KnowledgeBase) + ret.top_k)

\* five documents, top_k = 2, two returned
C13_Witness ==
    /\ Retrieved
    /\ Len(KnowledgeBase) = KnowledgeBaseSize
    /\ ret.top_k = 2
    /\ Len(ret.docs) = 2

\* the text of a response of that agent with no document in it
no_context_response(agent) ==
    [template |-> agent, with_context |-> FALSE, relevant_info |-> <<>>]

\* C14: _retrieve_context never raises; with an empty knowledge base, or
\* when encode fails (a missing model included), it returns the empty list,
\* and a process_query that got as far as the retrieval then returns the
\* response of the intent's agent built from its no-context template.
C14_RetrievalNeverRaises ==
    /\ Retrieved =>
          /\ ret.outcome = "returned"
          /\ (\/ KnowledgeBase = <<>>
              \/ ret.encode = "raises"
              \/ orchestrator.embedding_model = "None")
                => ret.docs = <<>>
    /\ (/\ ret.op = "process_query"
        /\ ret.retrieval.outcome # "not reached"
        /\ ret.encode = "raises")
          => /\ ret.outcome = "returned"
             /\ ret.result.agent_type \in AgentNames
             /\ ret.result.agent_type = orchestrator_classify_intent(ret.query)
             /\ ret.result.response = no_context_response(ret.result.agent_type)
             /\ ret.result.knowledge_sources = 0

\* a billing query whose embedding could not be computed
C14_Witness ==
    /\ ret.op = "process_query"
    /\ ret.encode = "raises"
    /\ ret.retrieval.fault = "encode"
    /\ ret.outcome = "returned"
    /\ ret.result.agent_type = "billing"
    /\ ret.result.response = no_context_response("billing")

\* C15: process_query returns, for every input and whatever fails on the
\* way, a record with response, agent_type, confidence and escalate: that of
\* an agent, or the fallback record with agent_type error, confidence 0.0
\* and escalate true.
C15_RoutingAlwaysProducesResult ==
    ret.op = "process_query" =>
       /\ ret.outcome = "returned"
       /\ {"response", "agent_type", "confidence", "escalate"} \subseteq DOMAIN ret.result
       /\ \/ ret.result.agent_type \in AgentNames
          \/ ret.result = fallback_record

\* C16: the escalate flag of a routed response: technical escalates exactly
\* when the priority is urgent, billing exactly when the query contains
\* "refund" or "cancel" in any case, general exactly when the priority is
\* high or urgent.
C16_EscalateRulePerVariant ==
    (/\ ret.op \in {"process_query", "process_ai_query"}
     /\ ret.outcome = "returned"
     /\ ret.result.agent_type \in AgentNames)
       => ret.result.escalate =
             CASE ret.result.agent_type = "technical" -> ret.priority = "urgent"
               [] ret.result.agent_type = "billing" ->
                     \/ contains("refund", lower(ret.query))
                     \/ contains("cancel", lower(ret.query))
               [] OTHER -> ret.priority \in {"high", "urgent"}

----------------------------------------------------------------------------
(* Properties of the snapshots *)

TopSnapshot == ret.op = "get_analytics"

\* the records the snapshot was made of
SnapshotQueries == get_recent_queries(query_history, ret.now)

\* the lower-cased, trimmed form of the texts of TopTexts, written out
NormalForm(text) ==
    CASE text \in {"Help", " help ", "HELP"} -> "help"
      [] text = "refund" -> "refund"
      [] text = "Login" -> "login"
      [] text = "bug " -> "bug"

\* the records of a group, by their places among the snapshot's records
GroupOf(key) ==
    {i \in 1..Len(SnapshotQueries) : NormalForm(SnapshotQueries[i].query) = key}

GroupKeys == {NormalForm(SnapshotQueries[i].query) : i \in 1..Len(SnapshotQueries)}

\* the place of the first record of a group
FirstSeen(key) == CHOOSE i \in GroupOf(key) : \A j \in GroupOf(key) : i <= j

\* C17: the key of a group is the lower-cased, trimmed text: the groups
\* returned have different keys, a record is in the group of its normal form
\* and in no other, and the count of a group is the number of its records.
C17_GroupingByNormalizedText ==
    TopSnapshot =>
       LET top == ret.top_queries
       IN /\ \A p \in 1..Len(top) :
                /\ top[p].query \in GroupKeys
                /\ top[p].count = Cardinality(GroupOf(top[p].query))
          /\ \A p, q \in 1..Len(top) : p # q => top[p].query # top[q].query
          /\ Len(top) < TopQueriesLimit
                => GroupKeys = {top[p].query : p \in 1..Len(top)}

\* "Help", " help " and "HELP" in one group of three
C17_Witness ==
    /\ TopSnapshot
    /\ {"Help", " help ", "HELP"} \subseteq
          {SnapshotQueries[i].query : i \in 1..Len(SnapshotQueries)}
    /\ Len(ret.top_queries) >= 1
    /\ ret.top_queries[1].query = "help"
    /\ ret.top_queries[1].count = 3

\* C18: _get_top_queries returns no more than the limit of groups, in
\* non-increasing order of count, groups of equal count in the order of
\* their first records; no group left out has a larger count than one
\* returned; the example of a group is its first record.
C18_TopQueriesOrder ==
    TopSnapshot =>
       LET top == ret.top_queries
           returned == {top[p].query : p \in 1..Len(top)}
       IN /\ Len(top) = Min(TopQueriesLimit, Cardinality(GroupKeys))
          /\ \A p, q \in 1..Len(top) :
                p < q => /\ top[p].count >= top[q].count
                         /\ top[p].count = top[q].count
                               => FirstSeen(top[p].query) < FirstSeen(top[q].query)
          /\ \A key \in GroupKeys \ returned : \A p \in 1..Len(top) :
                Cardinality(GroupOf(key)) <= top[p].count
          /\ \A p \in 1..Len(top) :
                top[p].example = SnapshotQueries[FirstSeen(top[p].query)]

\* a group of two seen after a group of one and returned before it, its
\* example the first of its two records
C18_Witness ==
    /\ TopSnapshot
    /\ Len(ret.top_queries) = 2
    /\ ret.top_queries[1].count = 2
    /\ ret.top_queries[2].count = 1
    /\ FirstSeen(ret.top_queries[2].query) < FirstSeen(ret.top_queries[1].query)
    /\ ret.top_queries[1].query = "help"
    /\ ret.top_queries[1].example.query = " help "

SessionSnapshot == ret.op = "get_session_analytics"

\* C19: get_session_analytics for a session_id no log_query call was made
\* with returns the empty result, raises nothing and leaves the aggregator
\* as it was: no session is created.
C19_UnknownSessionIsEmpty ==
    [][(/\ ret'.op = "get_session_analytics"
        /\ \A i \in 1..Len(logged) : logged[i].session_id # ret'.session_id)
          => /\ ret'.outcome = "returned"
             /\ DOMAIN ret'.result = {}
             /\ ret'.session_id \notin DOMAIN session_data'
             /\ UNCHANGED <<query_history, session_data, agent_metrics,
                            feedback_data, system_metrics, initialized, logged>>]_vars

\* a snapshot asked of s3 while other sessions exist
C19_Witness ==
    /\ SessionSnapshot
    /\ ret.session_id = "s3"
    /\ DOMAIN ret.result = {}
    /\ DOMAIN session_data = {"s1", "s2"}

----------------------------------------------------------------------------
(* Properties of feedback *)

\* C21: every stored feedback record has a rating in [1,5], and
\* satisfaction_score stays within [1,5].
C21_RatingsAreValidated ==
    /\ \A i \in 1..Len(feedback_data) : feedback_data[i].rating \in 1..5
    /\ system_metrics.satisfaction_score.den
          <= system_metrics.satisfaction_score.num
    /\ system_metrics.satisfaction_score.num
          <= 5 * system_metrics.satisfaction_score.den

\* C22: a log_feedback call appends one record, that of the call, to
\* feedback_data, leaves satisfaction_score at the mean of all ratings in
\* feedback_data, and changes nothing else: history, sessions, per-agent
\* samples, counters and avg_response_time stay as they are.  Nothing but
\* log_feedback changes feedback_data.
C22_FeedbackMeanAndFrame ==
    [][/\ ret'.op = "log_feedback" =>
             /\ Len(feedback_data') = Len(feedback_data) + 1
             /\ SubSeq(feedback_data', 1, Len(feedback_data)) = feedback_data
             /\ feedback_data'[Len(feedback_data')].rating = ret'.rating
             /\ feedback_data'[Len(feedback_data')].session_id = ret'.session_id
             /\ system_metrics'.satisfaction_score.num * Len(feedback_data')
                   = SumSeq([i \in 1..Len(feedback_data') |-> feedback_data'[i].rating])
                        * system_metrics'.satisfaction_score.den
             /\ system_metrics'.total_queries = system_metrics.total_queries
             /\ system_metrics'.total_sessions = system_metrics.total_sessions
             /\ system_metrics'.avg_response_time = system_metrics.avg_response_time
             /\ system_metrics'.agent_distribution = system_metrics.agent_distribution
             /\ UNCHANGED <<query_history, session_data, agent_metrics, logged>>
       /\ ret'.op # "log_feedback" => feedback_data' = feedback_data]_vars

\* two ratings of mean 2, logged after a query
C22_Witness ==
    /\ ret.op = "log_feedback"
    /\ Len(feedback_data) = 2
    /\ feedback_data[1].rating = 1
    /\ feedback_data[2].rating = 3
    /\ system_metrics.satisfaction_score.num
          = 2 * system_metrics.satisfaction_score.den
    /\ Len(query_history) = 1

----------------------------------------------------------------------------
(* Properties of the aggregator's counters and sessions *)

\* what total_queries and the counts of agent_distribution add up to before
\* any query is counted: 0, and after initialize() the seeded numbers
BaseQueries == IF initialized THEN SeedTotalQueries ELSE 0
BaseDistribution ==
    IF initialized THEN SeedTechnical + SeedBilling + SeedGeneral ELSE 0

\* C23: a snapshot is that of a state in which every log_query call is
\* applied wholly or not at all.  In such a state total_queries and the
\* counts of agent_distribution have grown by the same number, the number
\* of calls applied, and a session's total_queries, its agent_usage and its
\* queries are of the same records.  No snapshot call raises.
C23_SnapshotsAreOfWholeCalls ==
    /\ ret.op = "get_analytics" =>
          ret.total_queries - BaseQueries
             = SumVals(ret.agent_distribution, DOMAIN ret.agent_distribution)
                  - BaseDistribution
    /\ ret.op = "get_session_analytics" =>
          /\ ret.outcome = "returned"
          /\ DOMAIN ret.result # {} =>
                /\ SumVals(ret.result.agent_usage, DOMAIN ret.result.agent_usage)
                      = ret.result.total_queries
                /\ Len(ret.result.queries) = Min(ret.result.total_queries, SessionTail)

\* agent_distribution[a] and agent_metrics[a] read as a caller reads them:
\* a key that is absent counts 0 and holds no sample
CountOf(sm, a) ==
    IF a \in DOMAIN sm.agent_distribution.counts
    THEN sm.agent_distribution.counts[a] ELSE 0
SamplesOf(am, a) == IF a \in DOMAIN am THEN am[a] ELSE <<>>

\* C24: every log_query call raises total_queries by exactly one, raises
\* agent_distribution[agent_type] by exactly one and appends exactly one
\* sample to the samples of that agent_type, whatever the agent_type and
\* whether or not initialize() ran before.
C24_EveryCallCountsOnce ==
    [][logged' # logged =>
         LET a == logged'[Len(logged')].agent_type
         IN /\ system_metrics'.total_queries = system_metrics.total_queries + 1
            /\ CountOf(system_metrics', a) = CountOf(system_metrics, a) + 1
            /\ Len(SamplesOf(agent_metrics', a)) = Len(SamplesOf(agent_metrics, a)) + 1
            /\ SubSeq(SamplesOf(agent_metrics', a), 1, Len(SamplesOf(agent_metrics, a)))
                  = SamplesOf(agent_metrics, a)]_vars

----------------------------------------------------------------------------
(* Properties of the query endpoint *)

Answered == ret.op = "query_endpoint"

\* a body the endpoint must reject: query or customer_id missing or empty,
\* query longer than QueryMaxLength, or a priority given outside the four
InvalidBody ==
    \/ ret.body.query.kind # "str"
    \/ ret.body.query.value = ""
    \/ Len(ret.body.query.value) > QueryMaxLength
    \/ ret.body.customer_id.kind # "str"
    \/ ret.body.customer_id.value = ""
    \/ /\ ret.body.priority.kind = "str"
       /\ ret.body.priority.value \notin {"low", "medium", "high", "urgent"}

RejectedUnprocessed == ret.status = 422 /\ ~ret.classified

AnsweredInRange ==
    /\ ret.status = 200
    /\ ret.response.agent_type \in {"technical", "billing", "general"}
    /\ ret.response.confidence \in 0..100

----------------------------------------------------------------------------
(* Properties of the decision of the classifiers *)

RetTechnicalScore == technical_score(RetLex, RetText)
RetBillingScore == billing_score(RetLex, RetText)

\* C26: when the two scores differ the classifier returns the intent with
\* the strictly higher score, never general and never the lower one.
C26_HigherScoreWins ==
    Classified =>
       /\ RetTechnicalScore > RetBillingScore => ret.intent = "technical"
       /\ RetBillingScore > RetTechnicalScore => ret.intent = "billing"

C26_Witness ==
    /\ Classified
    /\ RetBillingScore > RetTechnicalScore
    /\ RetTechnicalScore > 0
    /\ any_in(RetLex.technical_indicators, RetText)
    /\ ret.intent = "billing"

\* C27: on a tie with both scores positive the technical indicators are
\* looked at before the billing ones: a text with a technical indicator is
\* technical even when it has a billing indicator too, and a text is billing
\* only when it has a billing indicator and no technical one.
C27_TieBreakTechnicalFirst ==
    Classified /\ RetTechnicalScore = RetBillingScore /\ RetTechnicalScore > 0 =>
       /\ any_in(RetLex.technical_indicators, RetText) => ret.intent = "technical"
       /\ ret.intent = "billing" <=>
             /\ any_in(RetLex.billing_indicators, RetText)
             /\ ~any_in(RetLex.technical_indicators, RetText)

C27_Witness ==
    /\ Classified
    /\ RetTechnicalScore = RetBillingScore
    /\ RetTechnicalScore > 0
    /\ any_in(RetLex.technical_indicators, RetText)
    /\ any_in(RetLex.billing_indicators, RetText)
    /\ ret.intent = "technical"

----------------------------------------------------------------------------
(* Properties of sessions and of eviction *)

LoggedSessionIds(l) == {l[i].session_id : i \in 1..Len(l)}
LoggedWith(l, sid) == SelectSeq(l, LAMBDA r : r.session_id = sid)
IsPrefix(a, b) == Len(a) <= Len(b) /\ SubSeq(b, 1, Len(a)) = a

\* C28: session_data has exactly one Session State per distinct session_id
\* passed to log_query, and a log_query call raises total_sessions by one
\* when its session_id was never passed before and by nothing otherwise.
C28_SessionCreatedOncePerId ==
    [][logged' # logged =>
         /\ DOMAIN session_data' = LoggedSessionIds(logged')
         /\ system_metrics'.total_sessions - system_metrics.total_sessions
               = IF logged'[Len(logged')].session_id \in LoggedSessionIds(logged)
                 THEN 0 ELSE 1]_vars

\* C29: a log_query call that evicts the oldest record of the history takes
\* nothing back elsewhere: every session keeps its records and its
\* evicted one, no cumulative response time, per-agent sample sequence,
\* total_sessions or agent_distribution count goes down, and total_queries
\* goes up by one as on any call.
C29_EvictionTouchesNothingElse ==
    [][logged' # logged /\ Len(query_history) = HistoryMaxLen =>
         /\ query_history' = Append(Tail(query_history), logged'[Len(logged')])
         /\ \A sid \in DOMAIN session_data :
               /\ sid \in DOMAIN session_data'
               /\ IsPrefix(session_data[sid].queries, session_data'[sid].queries)
               /\ session_data'[sid].total_response_time
                     >= session_data[sid].total_response_time
         /\ \A a \in DOMAIN agent_metrics :
               a \in DOMAIN agent_metrics' /\ IsPrefix(agent_metrics[a], agent_metrics'[a])
         /\ system_metrics'.total_queries = system_metrics.total_queries + 1
         /\ system_metrics'.total_sessions >= system_metrics.total_sessions
         /\ \A a \in DOMAIN system_metrics.agent_distribution.counts :
               CountOf(system_metrics', a) >= CountOf(system_metrics, a)]_vars

\* the first record logged has left the history and is still in its session
C29_Witness ==
    /\ ret.op = "log_query"
    /\ Len(logged) = HistoryMaxLen + 1
    /\ \A i \in 1..Len(query_history) : query_history[i] # logged[1]
    /\ logged[1].session_id \in DOMAIN session_data
    /\ session_data[logged[1].session_id].queries[1] = logged[1]
    /\ Len(session_data[logged[1].session_id].queries) = HistoryMaxLen + 1
    /\ system_metrics.total_queries = HistoryMaxLen + 1

\* C30: each session's query sequence is the records logged with its
\* session_id, in logging order, its total_response_time is the sum of their
\* response times, and a log_query for one session leaves every other
\* session's state unchanged.
C30_SessionHoldsItsRecords ==
    [][logged' # logged =>
         /\ \A sid \in LoggedSessionIds(logged') :
               /\ sid \in DOMAIN session_data'
               /\ session_data'[sid].queries = LoggedWith(logged', sid)
               /\ session_data'[sid].total_response_time
                     = SumSeq([i \in 1..Len(LoggedWith(logged', sid)) |->
                                  LoggedWith(logged', sid)[i].response_time])
         /\ \A sid \in DOMAIN session_data \ {logged'[Len(logged')].session_id} :
               sid \in DOMAIN session_data' /\ session_data'[sid] = session_data[sid]]_vars

----------------------------------------------------------------------------
(* Properties of the orchestrator's life *)

\* the call that made this state ran _setup_knowledge_base to its end
KnowledgeBaseBuilt ==
    /\ ret.op \in {"initialize_orchestrator", "process_query", "health_check"}
    /\ ret.knowledge_base_built

\* C31: the knowledge base is built once and immutable thereafter: once the
\* orchestrator holds its documents, no initialize, process_query,
\* health_check or cleanup computes them again or changes them.
C31_KnowledgeBaseBuiltOnce ==
    [][orchestrator.knowledge_base # <<>> =>
          /\ orchestrator'.knowledge_base = orchestrator.knowledge_base
          /\ ~KnowledgeBaseBuilt']_vars

\* the arguments of an answered call
ArgumentsOf(a) == <<a.query, a.customer_id, a.session_id, a.priority>>

\* C32: on an initialized orchestrator two process_query calls with the same
\* query, customer_id, session_id and priority return equal results whatever
\* calls ran before or between them, and no process_query call changes the
\* knowledge base or the agents.
C32_DeterministicAndReadOnly ==
    [][ret'.op = "process_query" /\ orchestrator.initialized =>
          /\ orchestrator'.knowledge_base = orchestrator.knowledge_base
          /\ orchestrator'.agents = orchestrator.agents
          /\ \A i, j \in 1..Len(answers') :
                ArgumentsOf(answers'[i]) = ArgumentsOf(answers'[j])
                   => answers'[i].result = answers'[j].result]_vars

\* a call, another call of another query, and the first call again
C32_Witness ==
    /\ Len(answers) = 3
    /\ ArgumentsOf(answers[1]) = ArgumentsOf(answers[3])
    /\ answers[2].query # answers[1].query
    /\ answers[1].result = answers[3].result
    /\ answers[1].result.agent_type = "technical"
    /\ answers[1].result.knowledge_sources = DefaultTopK

----------------------------------------------------------------------------
(* Properties of retrieval among documents of equal similarity *)

SameSimilarity(a, b) ==
    /\ ~greater(SimilarityOf(a), SimilarityOf(b))
    /\ ~greater(SimilarityOf(b), SimilarityOf(a))

\* C33: documents of exactly the same similarity to the query are returned
\* in their knowledge-base order: the later one is not returned without the
\* earlier one, and comes after it.
C33_TiesKeepKnowledgeBaseOrder ==
    Retrieved =>
       \A a, b \in 1..Len(KnowledgeBase) :
          (a < b /\ SameSimilarity(a, b) /\ PositionOf(b) > 0)
             => (PositionOf(a) > 0 /\ PositionOf(a) < PositionOf(b))

\* three documents of the same similarity: the first two returned side by
\* side in their order, the third cut off
C33_Witness ==
    /\ Retrieved
    /\ ret.top_k = DefaultTopK
    /\ \E a, b, c \in 1..Len(KnowledgeBase) :
          /\ a < b /\ b < c
          /\ SameSimilarity(a, b) /\ SameSimilarity(b, c)
          /\ PositionOf(a) > 0
          /\ PositionOf(b) = PositionOf(a) + 1
          /\ PositionOf(c) = 0

----------------------------------------------------------------------------
(* Properties of ties without indicator words, and of the two classifiers *)

\* C34: on a tie with both scores positive, a text with none of the
\* technical and none of the billing indicator words is general.
C34_TieWithoutIndicatorsIsGeneral ==
    (/\ Classified
     /\ RetTechnicalScore = RetBillingScore
     /\ RetTechnicalScore > 0
     /\ ~any_in(RetLex.technical_indicators, RetText)
     /\ ~any_in(RetLex.billing_indicators, RetText))
       => ret.intent = "general"

\* the example of the claim: the only matches are the keywords error and refund
C34_Witness ==
    /\ Classified
    /\ ret.query = "refund error"
    /\ RetTechnicalScore = KeywordWeight
    /\ RetBillingScore = KeywordWeight
    /\ ret.intent = "general"

\* the entries that only the lists of CustomerServiceOrchestrator have
OrchestratorOnly ==
    <<"crash", "slow", "unlock", "authenticate", "verification",
      "credit card", "bank", "transaction",
      "technical problem", "subscription cost", "payment problem">>

\* C35: for a query that has none of the entries that only
\* CustomerServiceOrchestrator's lists have, in the lower-case text the
\* classifiers match against, both classifiers return the same intent.
C35_ClassifiersAgreeOnCommonLexicon ==
    (Classified /\ ~any_in(OrchestratorOnly, RetText)) =>
       /\ ret.intent = simple_classify_intent(ret.query)
       /\ ret.intent = orchestrator_classify_intent(ret.query)

\* a text of the common lexicon that both call billing, having a technical
\* phrase too
C35_Witness ==
    /\ Classified
    /\ ret.impl = "CustomerServiceOrchestrator"
    /\ ~any_in(OrchestratorOnly, RetText)
    /\ ret.query = "billing problem refund"
    /\ ret.intent = "billing"
    /\ simple_classify_intent(ret.query) = "billing"

----------------------------------------------------------------------------
(* Properties of the ConnectionManager *)

\* C36: every websocket in active_connections is the value of some entry of
\* user_sessions, and the answer to a query of a connected websocket is sent
\* to that websocket, never to nobody.
C36_ConnectionsHaveTheirEntry ==
    /\ \A i \in 1..Len(manager.active_connections) :
          \E session_id \in DOMAIN manager.user_sessions :
             manager.user_sessions[session_id] = manager.active_connections[i]
    /\ (ret.op = "message" /\ ret.data = "query") => ret.sent_to = ret.websocket

----------------------------------------------------------------------------
(* Properties of the real-time metrics *)

\* C38: get_real_time_metrics returns in every reachable state, and with a
\* history that holds records but none of the last hour it reports
\* queries_last_hour = 0 and avg_confidence_last_hour = 0.0.
C38_RealTimeMetricsAlwaysReturn ==
    ret.op = "get_real_time_metrics" =>
       /\ ret.outcome = "returned"
       /\ (query_history # <<>> /\ last_hour(query_history, clock) = <<>>) =>
             /\ ret.queries_last_hour = 0
             /\ ret.avg_confidence_last_hour.num = 0

----------------------------------------------------------------------------
(* Properties of the Session State *)

\* C37: every session in session_data has at least one query, a
\* last_activity not earlier than its start_time, and the customer_id and
\* start_time of the query that created it, which no later log_query
\* changes whatever customer_id it carries.
C37_SessionKeepsItsOrigin ==
    [][\A sid \in DOMAIN session_data' :
          /\ Len(session_data'[sid].queries) >= 1
          /\ session_data'[sid].last_activity >= session_data'[sid].start_time
          /\ session_data'[sid].customer_id = session_data'[sid].queries[1].customer_id
          /\ isoformat(session_data'[sid].start_time)
                = session_data'[sid].queries[1].timestamp
          /\ sid \in DOMAIN session_data =>
                /\ session_data'[sid].customer_id = session_data[sid].customer_id
                /\ session_data'[sid].start_time = session_data[sid].start_time]_vars

\* a session begun by c1 and written to by c2 a tick later
C37_Witness ==
    /\ "s1" \in DOMAIN session_data
    /\ Len(session_data["s1"].queries) = 2
    /\ session_data["s1"].queries[2].customer_id = "c2"
    /\ session_data["s1"].customer_id = "c1"
    /\ session_data["s1"].start_time = 0
    /\ session_data["s1"].last_activity = 1

====
